---- MODULE Spec2Model ----
(***************************************************************************)
(* Model of the task-graph pipeline of video2tool:                         *)
(*   task_generation/dependency_analyzer.py  DependencyAnalyzer            *)
(*   task_generation/prioritizer.py          Prioritizer                   *)
(*   task_generation/estimator.py            Estimator                     *)
(*   task_generation/task_creator.py         TaskCreator                   *)
(* and of what runs it:                                                    *)
(*   utils/openrouter_client.py              OpenRouterClient              *)
(*   utils/queue_manager.py                  QueueManager                  *)
(*   api/routes.py                           handlers, follow-up endpoints *)
(*   api/middleware.py                       RateLimitMiddleware           *)
(* A task is a Python dict; it is modelled as a function from its keys     *)
(* (strings) to values, so that an absent key stays absent.  A string the   *)
(* code looks into (a line of text, an estimate, a task's name or          *)
(* category) is the sequence of its characters.                            *)
(***************************************************************************)
EXTENDS Integers, Sequences, FiniteSets, TLC

VARIABLES
    tasks,   \* the list of task dicts the stage works on (mutated in place)
    input,   \* the list as it was handed to the stage (never changes)
    graph,   \* edges of DependencyAnalyzer's dependency_graph, <<dep, task>>
    pc,      \* "parsing" | "parsed" | "analyzed" | "prioritized" |
             \* "estimated" | "raised"; "call" | "returned" for _parse_estimate
    exc,     \* the exception that left the stage, "none" when it returned
    task_text,         \* _parse_tasks: the text to parse
    line_no,           \* _parse_tasks: how many lines the loop has taken
    current_category,  \* _parse_tasks: the category of the last header
    estimate,          \* _parse_estimate: its argument
    hours,             \* _parse_estimate: its return value
    ai_call,           \* generate_completion: the model and the attempt of
                       \* the call under way
    ai_outcome,        \* _process_with_ai: how the generation call ended
    queue_tasks,       \* QueueManager.tasks: task id -> Task
    task_queue,        \* QueueManager.task_queue: the ids waiting, oldest first
    putting,           \* the calls between storing a task (line 108) and
                       \* Queue.put of its id (line 111)
    handlers,          \* QueueManager.handlers: task type -> handler
    workers,           \* QueueManager.workers: the threads start() appended
    running,           \* QueueManager.running
    threads,           \* every thread start() created: where it is in
                       \* _worker_loop, and the task id it holds
    time_time,         \* how often the worker threads read time.time(): the
                       \* number of their last reading
    caller,            \* the thread that calls start(), stop() and
                       \* clean_old_tasks(): where it is in the call
    dequeued,          \* history: task id -> the threads whose get() returned it
    invoked,           \* history: task id -> how often its handler was called
    response,          \* the last answer of a follow-up endpoint of routes.py
    request_timestamps,\* RateLimitMiddleware.request_timestamps
    clock,             \* time.time(), in seconds
    accepted,          \* history: client -> the times of the requests let through
    in_call_next,      \* client -> how many of its requests dispatch has
                       \* passed on and awaits in call_next
    verdict            \* the last answer of RateLimitMiddleware.dispatch

parserVars == <<task_text, line_no, current_category>>

estimateVars == <<estimate, hours>>

queueVars ==
    <<queue_tasks, task_queue, putting, handlers, workers, running, threads,
      time_time, caller, dequeued, invoked, response>>

limitVars == <<request_timestamps, clock, accepted, in_call_next, verdict>>

aiVars == <<ai_call, ai_outcome>>

serviceVars == <<aiVars, queueVars, limitVars>>

pipelineVars == <<tasks, input, graph, pc, exc, parserVars, estimateVars>>

vars == <<pipelineVars, serviceVars>>

(***************************************************************************)
(* Bounds of the model.                                                    *)
(***************************************************************************)
\* total number of dependency entries over all tasks of an analysed batch
MaxDepEntries == 4

\* ids of the tasks of a batch, in list order
TaskIds == <<"T1", "T2", "T3">>

\* an id no task of the batch carries
GhostIds == {"T99"}

(***************************************************************************)
(* Python values.                                                          *)
(***************************************************************************)
\* Python's None; no string the model enumerates equals it
None == "<None>"

\* the None of a field that otherwise holds a str.  A str is the sequence of
\* its characters, and None is the sequence of the one value None, which is
\* no character.
NoneStr == <<None>>

Range(s) == {s[i] : i \in DOMAIN s}

\* dict.get(key, default)
Get(d, key, default) == IF key \in DOMAIN d THEN d[key] ELSE default

\* d[key] = value
Put(d, key, value) ==
    [k \in (DOMAIN d) \cup {key} |-> IF k = key THEN value ELSE d[k]]

\* list.remove(x): removes the first occurrence; the caller checks x is there
RemoveFirst(s, x) ==
    LET i == CHOOSE k \in DOMAIN s : s[k] = x /\ \A j \in 1..(k - 1) : s[j] # x
    IN  [k \in 1..(Len(s) - 1) |-> IF k < i THEN s[k] ELSE s[k + 1]]

\* sequences without repetition over a set, of every length from 1
DistinctSeqs(S) ==
    UNION {{s \in [1..n -> S] : \A i, j \in 1..n : i # j => s[i] # s[j]} :
           n \in 1..Cardinality(S)}

(***************************************************************************)
(* Python floats: IEEE-754 binary64, round to nearest, ties to even.       *)
(* A natural number is a little-endian sequence of limbs in base Base; a   *)
(* positive float is [m, e] with value m * 2^e and m of exactly MantBits   *)
(* bits, and zero is FloatZero.  The scores of the prioritizer stay far    *)
(* from overflow and underflow, so the exponent is unbounded here.  The    *)
(* arithmetic is written as functions: a function is applied to values.    *)
(***************************************************************************)
Base == 2 ^ 14

LimbBits == 14

MantBits == 53

Big == Seq(Nat)

\* the element of a singleton: TheOne({F(x) : x \in {e}}) is F(e) with e
\* evaluated once
TheOne(S) == CHOOSE x \in S : TRUE

\* the limbs of a natural number below 2^31
BigFromInt[n \in Nat] ==
    IF n = 0 THEN <<>> ELSE <<n % Base>> \o BigFromInt[n \div Base]

\* without the zero limbs at the most significant end
BigTrim[a \in Big] ==
    IF a = <<>> \/ a[Len(a)] # 0 THEN a ELSE BigTrim[SubSeq(a, 1, Len(a) - 1)]

BigAdd[a \in Big, b \in Big, carry \in Nat] ==
    IF a = <<>> /\ b = <<>> THEN (IF carry = 0 THEN <<>> ELSE <<carry>>)
    ELSE LET x == IF a = <<>> THEN 0 ELSE Head(a)
             y == IF b = <<>> THEN 0 ELSE Head(b)
             t == x + y + carry
         IN  <<t % Base>> \o BigAdd[IF a = <<>> THEN a ELSE Tail(a),
                                    IF b = <<>> THEN b ELSE Tail(b), t \div Base]

\* a * n + carry for a single limb n
BigMulSmall[a \in Big, n \in Nat, carry \in Nat] ==
    IF a = <<>> THEN (IF carry = 0 THEN <<>> ELSE <<carry>>)
    ELSE LET t == Head(a) * n + carry
         IN  <<t % Base>> \o BigMulSmall[Tail(a), n, t \div Base]

BigMul[a \in Big, b \in Big] ==
    IF b = <<>> THEN <<>>
    ELSE BigAdd[BigMulSmall[a, Head(b), 0], <<0>> \o BigMul[a, Tail(b)], 0]

\* the division step: the higher limbs' result hi and the next limb x
DivState == [q : Big, r : Nat]

BigDivStep[hi \in DivState, x \in Nat, n \in Nat] ==
    LET t == hi.r * Base + x
    IN  [q |-> <<t \div n>> \o hi.q, r |-> t % n]

\* quotient and remainder of a by n, 0 < n <= Base
BigDivSmall[a \in Big, n \in Nat] ==
    IF a = <<>> THEN [q |-> <<>>, r |-> 0]
    ELSE BigDivStep[BigDivSmall[Tail(a), n], Head(a), n]

SmallBitLen[n \in Nat] == IF n = 0 THEN 0 ELSE 1 + SmallBitLen[n \div 2]

\* the number of bits of a trimmed natural number
TrimmedBitLen[t \in Big] ==
    IF t = <<>> THEN 0 ELSE (Len(t) - 1) * LimbBits + SmallBitLen[t[Len(t)]]

BigBitLen[a \in Big] == TrimmedBitLen[BigTrim[a]]

\* a * 2^k
BigShl[a \in Big, k \in Nat] ==
    [i \in 1..(k \div LimbBits) |-> 0] \o BigMulSmall[a, 2 ^ (k % LimbBits), 0]

\* floor(a / 2^k), and whether a bit was shifted out
BigShr[a \in Big, k \in Nat] ==
    LET d    == k \div LimbBits
        low  == SubSeq(a, 1, IF d < Len(a) THEN d ELSE Len(a))
        rest == IF d < Len(a) THEN SubSeq(a, d + 1, Len(a)) ELSE <<>>
    IN  TheOne({[q |-> dv.q, lost |-> dv.r # 0 \/ \E i \in DOMAIN low : low[i] # 0] :
                dv \in {BigDivSmall[rest, 2 ^ (k % LimbBits)]}})

\* -1, 0, 1 as a < b, a = b, a > b, for trimmed a and b
BigCmp[a \in Big, b \in Big] ==
    IF Len(a) # Len(b) THEN (IF Len(a) < Len(b) THEN -1 ELSE 1)
    ELSE IF a = <<>> THEN 0
    ELSE IF a[Len(a)] # b[Len(b)] THEN (IF a[Len(a)] < b[Len(b)] THEN -1 ELSE 1)
    ELSE BigCmp[SubSeq(a, 1, Len(a) - 1), SubSeq(b, 1, Len(b) - 1)]

Float == [m : Big, e : Int]

FloatZero == [m |-> <<>>, e |-> 0]

\* a mantissa m of MantBits or MantBits + 1 bits (a carry out of the
\* rounding) brought back to MantBits bits
FloatCarry[m \in Big, e \in Int] ==
    IF BigBitLen[m] > MantBits
    THEN [m |-> BigTrim[BigShr[m, 1].q], e |-> e + 1]
    ELSE [m |-> m, e |-> e]

\* the rounding step: g holds the mantissa with the guard bit below it
ShiftState == [q : Big, lost : BOOLEAN]

FloatRoundUp[g \in ShiftState, e \in Int, sticky \in BOOLEAN] ==
    TheOne({FloatCarry[BigTrim[IF /\ Head(g.q) % 2 = 1
                                  /\ (g.lost \/ sticky \/ Head(h) % 2 = 1)
                               THEN BigAdd[h, <<1>>, 0] ELSE h], e] :
            h \in {BigShr[g.q, 1].q}})

\* the float nearest to p * 2^e (+ a positive amount below 2^e when sticky)
FloatRoundLen[p \in Big, len \in Nat, e \in Int, sticky \in BOOLEAN] ==
    IF len = 0 THEN FloatZero
    ELSE IF len <= MantBits
    THEN [m |-> BigTrim[BigShl[p, MantBits - len]], e |-> e - (MantBits - len)]
    ELSE FloatRoundUp[BigShr[p, len - MantBits - 1], e + len - MantBits, sticky]

FloatRound[p \in Big, e \in Int, sticky \in BOOLEAN] ==
    FloatRoundLen[p, BigBitLen[p], e, sticky]

\* float(n) for an int n >= 0
FloatFromInt[n \in Nat] == FloatRound[BigFromInt[n], 0, FALSE]

\* the float a / n of two positive ints: a float literal "1.2" is 12 / 10
\* rounded once, and 1.0 / k is the correctly rounded quotient
FloatQuot[a \in Nat, n \in Nat] ==
    TheOne({FloatRound[dv.q, -(5 * LimbBits), dv.r # 0] :
            dv \in {BigDivSmall[<<0, 0, 0, 0, 0>> \o BigFromInt[a], n]}})

FloatMul[x \in Float, y \in Float] ==
    IF x.m = <<>> \/ y.m = <<>> THEN FloatZero
    ELSE FloatRound[BigMul[x.m, y.m], x.e + y.e, FALSE]

FloatAdd[x \in Float, y \in Float] ==
    IF x.m = <<>> THEN y
    ELSE IF y.m = <<>> THEN x
    ELSE LET e == IF x.e < y.e THEN x.e ELSE y.e
         IN  FloatRound[BigAdd[BigShl[x.m, x.e - e], BigShl[y.m, y.e - e], 0],
                        e, FALSE]

\* x < y for floats >= 0
FloatLess[x \in Float, y \in Float] ==
    IF y.m = <<>> THEN FALSE
    ELSE IF x.m = <<>> THEN TRUE
    ELSE IF x.e # y.e THEN x.e < y.e
    ELSE BigCmp[x.m, y.m] = -1

(***************************************************************************)
(* Python strings: a str is the sequence of its characters.                *)
(***************************************************************************)
DigitChars == <<"0", "1", "2", "3", "4", "5", "6", "7", "8", "9">>

\* The characters of the model are the code points 0..255, which are the ones
\* a string of a module can hold; the tables below are Python's for them.
\* the characters c with c.lower() # c
UpperChars ==
    <<"A", "B", "C", "D", "E", "F", "G", "H", "I", "J", "K", "L", "M", "N",
      "O", "P", "Q", "R", "S", "T", "U", "V", "W", "X", "Y", "Z", "À", "Á",
      "Â", "Ã", "Ä", "Å", "Æ", "Ç", "È", "É", "Ê", "Ë", "Ì", "Í", "Î", "Ï",
      "Ð", "Ñ", "Ò", "Ó", "Ô", "Õ", "Ö", "Ø", "Ù", "Ú", "Û", "Ü", "Ý", "Þ">>

\* their str.lower(), place for place
LowerChars ==
    <<"a", "b", "c", "d", "e", "f", "g", "h", "i", "j", "k", "l", "m", "n",
      "o", "p", "q", "r", "s", "t", "u", "v", "w", "x", "y", "z", "à", "á",
      "â", "ã", "ä", "å", "æ", "ç", "è", "é", "ê", "ë", "ì", "í", "î", "ï",
      "ð", "ñ", "ò", "ó", "ô", "õ", "ö", "ø", "ù", "ú", "û", "ü", "ý", "þ">>

\* the lowercase characters that are no str.lower() of another character
OtherLowerChars == {"ª", "µ", "º", "ß", "ÿ"}

\* the characters c with c.isspace(): tab, line feed, vertical tab, form
\* feed, carriage return, the separators 0x1c-0x1f, space, 0x85 and 0xa0
WhiteSpace ==
    {"\t", "\n", "", "\f", "\r", "", "", "", "", " ", "", " "}

\* what the pattern \d matches
IsDigit(c) == c \in Range(DigitChars)

\* what the pattern \s matches, and what str.strip() removes
IsSpace(c) == c \in WhiteSpace

DigitValue(c) == CHOOSE d \in 0..9 : DigitChars[d + 1] = c

\* str.lower(), which re.IGNORECASE applies to both sides
Lower(c) ==
    IF c \in Range(UpperChars)
    THEN LowerChars[CHOOSE i \in DOMAIN UpperChars : UpperChars[i] = c]
    ELSE c

LowerStr(s) == [i \in DOMAIN s |-> Lower(s[i])]

\* the word w stands in s from position i
WordAt(s, i, w) ==
    /\ i >= 1
    /\ i + Len(w) - 1 <= Len(s)
    /\ SubSeq(s, i, i + Len(w) - 1) = w

\* w in s
Contains(s, w) == \E i \in 1..(Len(s) + 1) : WordAt(s, i, w)

\* the first position from i on that holds no digit
RECURSIVE DigitsEnd(_, _)
DigitsEnd(s, i) ==
    IF i <= Len(s) /\ IsDigit(s[i]) THEN DigitsEnd(s, i + 1) ELSE i

\* the first position from i on that holds no white space
RECURSIVE SpacesEnd(_, _)
SpacesEnd(s, i) ==
    IF i <= Len(s) /\ IsSpace(s[i]) THEN SpacesEnd(s, i + 1) ELSE i

\* the natural number a string of digits denotes
RECURSIVE DigitsToBig(_)
DigitsToBig(ds) ==
    IF ds = <<>> THEN <<>>
    ELSE TheOne({BigTrim[BigAdd[BigMulSmall[hi, 10, 0],
                                <<DigitValue(ds[Len(ds)])>>, 0]] :
                 hi \in {DigitsToBig(SubSeq(ds, 1, Len(ds) - 1))}})

\* str(n) for an int n >= 0
RECURSIVE IntToStr(_)
IntToStr(n) ==
    IF n < 10 THEN <<DigitChars[n + 1]>>
    ELSE IntToStr(n \div 10) \o <<DigitChars[(n % 10) + 1]>>

\* s without the characters of the set cs at its two ends
RECURSIVE StripChars(_, _)
StripChars(s, cs) ==
    IF s = <<>> THEN s
    ELSE IF s[1] \in cs THEN StripChars(Tail(s), cs)
    ELSE IF s[Len(s)] \in cs THEN StripChars(SubSeq(s, 1, Len(s) - 1), cs)
    ELSE s

\* str.strip()
StripStr(s) == StripChars(s, {c \in Range(s) : IsSpace(c)})

\* str.isupper(): a cased character, and no lowercase one
IsUpperStr(s) ==
    /\ \E i \in DOMAIN s : s[i] \in Range(UpperChars)
    /\ \A i \in DOMAIN s : s[i] \notin Range(LowerChars) \cup OtherLowerChars

(***************************************************************************)
(* DependencyAnalyzer.analyze_dependencies                                 *)
(***************************************************************************)
\* task_map = {task["id"]: task for task in tasks}: the keys
TaskMapIds(ts) == {ts[i]["id"] : i \in DOMAIN ts}

\* task_map[id]: the position of the task the map holds for id (the last one)
TaskMapIndex(ts, id) ==
    CHOOSE i \in DOMAIN ts :
        ts[i]["id"] = id /\ \A j \in DOMAIN ts : j > i => ts[j]["id"] # id

\* the inner loop "for dep_id in task.get('dependencies', [])" of one task:
\* the list iterator holds an index i into the list that the body shrinks
RECURSIVE ScanDeps(_, _, _, _, _)
ScanDeps(deps, i, tid, ids, edges) ==
    IF i > Len(deps) THEN [deps |-> deps, edges |-> edges]
    ELSE LET dep_id == deps[i] IN
         IF dep_id \in ids
         THEN ScanDeps(deps, i + 1, tid, ids, edges \cup {<<dep_id, tid>>})
         ELSE ScanDeps(RemoveFirst(deps, dep_id), i + 1, tid, ids, edges)

\* the outer loop "for task in tasks" that adds the edges, from task k on
RECURSIVE AddEdges(_, _, _)
AddEdges(ts, k, edges) ==
    IF k > Len(ts) THEN [tasks |-> ts, edges |-> edges, exc |-> "none"]
    ELSE IF "dependencies" \notin DOMAIN ts[k] THEN AddEdges(ts, k + 1, edges)
    ELSE LET r == ScanDeps(ts[k]["dependencies"], 1, ts[k]["id"],
                           TaskMapIds(ts), edges)
         IN  AddEdges([ts EXCEPT ![k] = Put(ts[k], "dependencies", r.deps)],
                      k + 1, r.edges)

\* whether the node sequence c is a closed walk of the graph
IsCycle(c, edges) ==
    /\ \A i \in 1..(Len(c) - 1) : <<c[i], c[i + 1]>> \in edges
    /\ <<c[Len(c)], c[1]>> \in edges

\* the cyclic shifts of a node sequence
Rotations(c) ==
    {[i \in 1..Len(c) |-> c[((i + k - 1) % Len(c)) + 1]] : k \in 0..(Len(c) - 1)}

\* nx.simple_cycles(G): every elementary circuit once. networkx fixes neither
\* the order of the circuits nor the node each list starts at, so a circuit
\* is the set of its rotations and the caller chooses among them.
SimpleCycles(nodes, edges) ==
    {Rotations(c) : c \in {s \in DistinctSeqs(nodes) : IsCycle(s, edges)}}

\* BreakCycle with the update of the task's list forgotten
BreakCycleGraphOnly(st, cycle) ==
    LET last_node  == cycle[Len(cycle)]
        first_node == cycle[1]
    IN  [st EXCEPT !.edges = st.edges \ {<<last_node, first_node>>}]

\* the body of "for cycle in cycles" for one cycle list
BreakCycle(st, cycle) ==
    LET last_node  == cycle[Len(cycle)]
        first_node == cycle[1]
        k          == TaskMapIndex(st.tasks, last_node)
        deps       == st.tasks[k]["dependencies"]
    IN  IF <<last_node, first_node>> \notin st.edges THEN st
        ELSE IF "dependencies" \notin DOMAIN st.tasks[k]
        THEN \* task_map[last_node]["dependencies"] raises KeyError, after
             \* remove_edge: the map holds a later task of the same id
             [tasks |-> st.tasks,
              edges |-> st.edges \ {<<last_node, first_node>>},
              exc   |-> "KeyError"]
        ELSE IF first_node \notin Range(deps)
        THEN \* list.remove raises ValueError, after remove_edge
             [tasks |-> st.tasks,
              edges |-> st.edges \ {<<last_node, first_node>>},
              exc   |-> "ValueError"]
        ELSE [tasks |-> [st.tasks EXCEPT ![k] =
                            Put(st.tasks[k], "dependencies",
                                RemoveFirst(deps, first_node))],
              edges |-> st.edges \ {<<last_node, first_node>>},
              exc   |-> "none"]

\* the loop over the cycles found, in every order and from every start node
\* simple_cycles may report; an exception leaves the loop
RECURSIVE BreakCycles(_, _)
BreakCycles(st, cycles) ==
    IF st.exc # "none" \/ cycles = {} THEN {st}
    ELSE UNION {UNION {BreakCycles(BreakCycle(st, c), cycles \ {cls}) : c \in cls} :
                cls \in cycles}

\* nx.all_simple_paths(G, source, target), source # target
AllSimplePaths(nodes, edges, source, target) ==
    {p \in DistinctSeqs(nodes) :
        /\ p[1] = source
        /\ p[Len(p)] = target
        /\ \A i \in 1..(Len(p) - 1) : <<p[i], p[i + 1]>> \in edges}

Max(S) == CHOOSE x \in S : \A y \in S : y <= x

\* depths[task_id]: max(len(path)) over the simple paths that end at task_id
Depth(nodes, edges, task_id) ==
    LET paths == UNION {AllSimplePaths(nodes, edges, node, task_id) :
                        node \in nodes \ {task_id}}
    IN  IF paths # {} THEN Max({Len(p) : p \in paths}) ELSE 0

\* DependentTasks with the membership test turned round: the tasks that the
\* task depends on, instead of the tasks that depend on it
RECURSIVE DependentTasksReversed(_, _, _)
DependentTasksReversed(ts, id, k) ==
    IF k > Len(ts) THEN <<>>
    ELSE (IF ts[k]["id"] \in
               Range(Get(ts[TaskMapIndex(ts, id)], "dependencies", <<>>))
          THEN <<ts[k]["id"]>> ELSE <<>>) \o DependentTasksReversed(ts, id, k + 1)

\* "for other_task in tasks: if task['id'] in other_task.get('dependencies')"
RECURSIVE DependentTasks(_, _, _)
DependentTasks(ts, id, k) ==
    IF k > Len(ts) THEN <<>>
    ELSE (IF id \in Range(Get(ts[k], "dependencies", <<>>))
          THEN <<ts[k]["id"]>> ELSE <<>>) \o DependentTasks(ts, id, k + 1)

\* the depth loop and the dependents loop
AddMetrics(ts, edges) ==
    LET nodes == TaskMapIds(ts)
        withDepth == [i \in DOMAIN ts |->
                        Put(ts[i], "depth", Depth(nodes, edges, ts[i]["id"]))]
    IN  [i \in DOMAIN ts |->
            LET dependent_tasks == DependentTasks(withDepth, ts[i]["id"], 1)
            IN  Put(Put(withDepth[i], "dependent_tasks", dependent_tasks),
                    "dependent_count", Len(dependent_tasks))]

\* every way analyze_dependencies(ts) can end: [tasks, edges, exc]
AnalyzeOutcomes(ts) ==
    LET built == AddEdges(ts, 1, {})
        ends  == BreakCycles(built, SimpleCycles(TaskMapIds(ts), built.edges))
    IN  {IF st.exc = "none"
         THEN [st EXCEPT !.tasks = AddMetrics(st.tasks, st.edges)]
         ELSE st : st \in ends}

AnalyzeDependencies ==
    /\ pc = "parsed"
    /\ \E out \in AnalyzeOutcomes(tasks) :
        /\ tasks' = out.tasks
        /\ graph' = out.edges
        /\ exc' = out.exc
        /\ pc' = IF out.exc = "none" THEN "analyzed" ELSE "raised"
    /\ UNCHANGED <<input, parserVars, estimateVars, serviceVars>>

(***************************************************************************)
(* Prioritizer.prioritize_tasks                                            *)
(***************************************************************************)
\* self.priority_weights
PriorityWeights ==
    [Critical |-> 4, High |-> 3, Medium |-> 2, Low |-> 1]

\* self.category_weights: the float literals 1.2, 1.1, ...
CategoryWeights ==
    (<<"B", "a", "c", "k", "e", "n", "d">> :> FloatQuot[12, 10]) @@
    (<<"F", "r", "o", "n", "t", "e", "n", "d">> :> FloatQuot[11, 10]) @@
    (<<"D", "a", "t", "a", "b", "a", "s", "e">> :> FloatQuot[13, 10]) @@
    (<<"I", "n", "f", "r", "a", "s", "t", "r", "u", "c", "t", "u", "r", "e">> :> FloatQuot[14, 10]) @@
    (<<"A", "u", "t", "h", "e", "n", "t", "i", "c", "a", "t", "i", "o", "n">> :> FloatQuot[15, 10]) @@
    (<<"T", "e", "s", "t", "i", "n", "g">> :> FloatQuot[9, 10]) @@
    (<<"D", "o", "c", "u", "m", "e", "n", "t", "a", "t", "i", "o", "n">> :> FloatQuot[8, 10])

\* self.default_category_weight = 1.0
DefaultCategoryWeight == FloatFromInt[1]

\* PriorityValue with the weights of Critical and Low exchanged
PriorityValueSwapped(task) ==
    Get([Critical |-> 1, High |-> 3, Medium |-> 2, Low |-> 4],
        Get(task, "priority", "Medium"), 2)

\* priority_value = self.priority_weights.get(task.get("priority", "Medium"), 2)
PriorityValue(task) ==
    Get(PriorityWeights, Get(task, "priority", "Medium"), 2)

\* the body of the scoring loop once category is a string: priority_score
PriorityScore(task) ==
    LET priority_value   == PriorityValue(task)
        category         == StripStr(Get(task, "category", <<>>))
        category_weight  == Get(CategoryWeights, category, DefaultCategoryWeight)
        depth            == Get(task, "depth", 0)
        depth_factor     == FloatQuot[1, depth + 1]
        dependent_count  == Get(task, "dependent_count", 0)
        dependent_factor == FloatAdd[FloatFromInt[1],
                                     FloatMul[FloatFromInt[dependent_count],
                                              FloatQuot[1, 10]]]
    IN  FloatMul[FloatMul[FloatMul[FloatFromInt[priority_value], category_weight],
                          depth_factor],
                 dependent_factor]

\* the scoring loop from task k on; None has no strip(): AttributeError
RECURSIVE ScoreTasks(_, _)
ScoreTasks(ts, k) ==
    IF k > Len(ts) THEN [tasks |-> ts, exc |-> "none"]
    ELSE IF Get(ts[k], "category", <<>>) = NoneStr
    THEN [tasks |-> ts, exc |-> "AttributeError"]
    ELSE TheOne({ScoreTasks([ts EXCEPT ![k] = Put(ts[k], "priority_score", score)],
                            k + 1) :
                 score \in {PriorityScore(ts[k])}})

\* the sort key: x.get("priority_score", 0)
SortKey(task) == Get(task, "priority_score", FloatZero)

\* x put into the list rest behind its first n tasks
InsertAt(rest, x, n) ==
    SubSeq(rest, 1, n) \o <<x>> \o SubSeq(rest, n + 1, Len(rest))

\* SortedDescending done as an ascending sort read backwards, which turns
\* the order of equal keys round
RECURSIVE SortedAscendingReversed(_)
SortedAscendingReversed(ts) ==
    IF ts = <<>> THEN <<>>
    ELSE TheOne({InsertAt(rest, ts[Len(ts)],
                          Cardinality({i \in DOMAIN rest :
                              FloatLess[SortKey(ts[Len(ts)]), SortKey(rest[i])]})) :
                 rest \in {SortedAscendingReversed(SubSeq(ts, 1, Len(ts) - 1))}})

\* SortedDescending through a dict keyed by the score: of the tasks with one
\* score only the first is kept
SortedDescendingByScore(ts) ==
    LET kept == {i \in DOMAIN ts :
                    \A j \in 1..(i - 1) : SortKey(ts[j]) # SortKey(ts[i])}
        rank(i) == 1 + Cardinality({j \in kept :
                                       FloatLess[SortKey(ts[i]), SortKey(ts[j])]})
    IN  [n \in 1..Cardinality(kept) |-> ts[CHOOSE i \in kept : rank(i) = n]]

\* sorted(tasks, key=..., reverse=True): a stable sort, so a task goes behind
\* every task of the sorted prefix whose key is not less than its own
RECURSIVE SortedDescending(_)
SortedDescending(ts) ==
    IF ts = <<>> THEN <<>>
    ELSE TheOne({InsertAt(rest, ts[Len(ts)],
                          Cardinality({i \in DOMAIN rest :
                              ~FloatLess[SortKey(rest[i]), SortKey(ts[Len(ts)])]})) :
                 rest \in {SortedDescending(SubSeq(ts, 1, Len(ts) - 1))}})

\* AddRanks with equal scores sharing a rank: one more than the number of
\* tasks with a greater score
AddRanksCompeting(ts) ==
    [i \in DOMAIN ts |->
        Put(ts[i], "rank",
            1 + Cardinality({j \in DOMAIN ts :
                                FloatLess[SortKey(ts[i]), SortKey(ts[j])]}))]

\* for i, task in enumerate(prioritized_tasks, 1): task["rank"] = i
AddRanks(ts) == [i \in DOMAIN ts |-> Put(ts[i], "rank", i)]

\* how prioritize_tasks(ts) ends: [tasks, exc]; on an exception the list is
\* the caller's, with the scores set so far
PrioritizeOutcome(ts) ==
    TheOne({IF scored.exc # "none" THEN scored
            ELSE [tasks |-> AddRanks(SortedDescending(scored.tasks)),
                  exc   |-> "none"] :
            scored \in {ScoreTasks(ts, 1)}})

PrioritizeTasks ==
    /\ pc = "analyzed"
    /\ \E out \in {PrioritizeOutcome(tasks)} :
        /\ tasks' = out.tasks
        /\ exc' = out.exc
        /\ pc' = IF out.exc = "none" THEN "prioritized" ELSE "raised"
    /\ UNCHANGED <<input, graph, parserVars, estimateVars, serviceVars>>

(***************************************************************************)
(* Batches handed to the dependency analyzer: the tasks the parser builds  *)
(* (task_creator.py, _parse_tasks), with every dependency list of at most  *)
(* MaxDepEntries entries in total over ids of the batch and ghost ids.     *)
(***************************************************************************)
ParsedTask(id, category, priority, deps) ==
    [id |-> id, name |-> <<"t", "a", "s", "k">>, description |-> <<>>,
     category |-> category, priority |-> priority, dependencies |-> deps,
     estimate |-> <<>>, notes |-> <<>>]

\* no _parse_tasks and no _parse_estimate call is under way
NoCall ==
    /\ task_text = <<>>
    /\ line_no = 0
    /\ current_category = NoneStr
    /\ estimate = <<>>
    /\ hours = None

\* no call of enqueue_task or of an endpoint was answered yet
NoResponse == [call |-> "none", id |-> 0, code |-> "none", task_id |-> 0]

\* the thread that calls start(), stop() and clean_old_tasks() is in none of
\* them
Idle == [pc |-> "idle", i |-> 0, cutoff |-> 0, old_task_ids |-> {}, used |-> 0]

\* a QueueManager as __init__ leaves it (queue_manager.py, lines 46-51), with
\* no handler registered
NoQueue ==
    /\ queue_tasks = <<>>
    /\ task_queue = <<>>
    /\ putting = {}
    /\ handlers = <<>>
    /\ workers = <<>>
    /\ running = FALSE
    /\ threads = <<>>
    /\ time_time = 0
    /\ caller = Idle
    /\ dequeued = <<>>
    /\ invoked = <<>>
    /\ response = NoResponse

\* no request was dispatched yet
NoVerdict == [client |-> "none", status_code |-> 0]

\* a RateLimitMiddleware as __init__ leaves it (middleware.py, line 75)
NoLimit ==
    /\ request_timestamps = <<>>
    /\ clock = 0
    /\ accepted = <<>>
    /\ in_call_next = [client \in {"10.0.0.1", "unknown"} |-> 0]
    /\ verdict = NoVerdict

\* no generation call was made, and the queue and the middleware are idle
NoService ==
    /\ ai_call = [model |-> "none", attempt |-> 0]
    /\ ai_outcome = "none"
    /\ NoQueue
    /\ NoLimit

DepIds == Range(TaskIds) \cup GhostIds

\* how many entries each of the three lists gets
DepSplits ==
    {l \in [DOMAIN TaskIds -> 0..MaxDepEntries] : l[1] + l[2] + l[3] <= MaxDepEntries}

DepBatches ==
    UNION {{<<d1, d2, d3>> : d1 \in [1..l[1] -> DepIds],
                             d2 \in [1..l[2] -> DepIds],
                             d3 \in [1..l[3] -> DepIds]} : l \in DepSplits}

InitDep ==
    /\ \E d \in DepBatches :
        tasks = [i \in DOMAIN TaskIds |->
                    ParsedTask(TaskIds[i], None, "Medium", d[i])]
    /\ input = tasks
    /\ graph = {}
    /\ pc = "parsed"
    /\ exc = "none"
    /\ NoService
    /\ NoCall

NextDep == AnalyzeDependencies

SpecDep == InitDep /\ [][NextDep]_vars

(***************************************************************************)
(* Batches for the prioritizer: parsed tasks with a priority and a         *)
(* category each and at most MaxPrioDepEntries dependency entries over the *)
(* ids of the batch, run through the dependency analyzer and then          *)
(* prioritized, as create_tasks does (task_creator.py, lines 44-51).       *)
(***************************************************************************)
MaxPrioDepEntries == 2

\* priorities _parse_tasks can set
Priorities == {"Critical", "High", "Low"}

\* current_category of _parse_tasks: None before any header
Categories == {NoneStr, <<"B", "a", "c", "k", "e", "n", "d">>}

PrioSplits ==
    {l \in [DOMAIN TaskIds -> 0..MaxPrioDepEntries] :
        l[1] + l[2] + l[3] <= MaxPrioDepEntries}

PrioDepBatches ==
    UNION {{<<d1, d2, d3>> : d1 \in [1..l[1] -> Range(TaskIds)],
                             d2 \in [1..l[2] -> Range(TaskIds)],
                             d3 \in [1..l[3] -> Range(TaskIds)]} : l \in PrioSplits}

InitPrio ==
    /\ \E d \in PrioDepBatches :
       \E p \in [DOMAIN TaskIds -> Priorities] :
       \E c \in [DOMAIN TaskIds -> Categories] :
        tasks = [i \in DOMAIN TaskIds |-> ParsedTask(TaskIds[i], c[i], p[i], d[i])]
    /\ input = tasks
    /\ graph = {}
    /\ pc = "parsed"
    /\ exc = "none"
    /\ NoService
    /\ NoCall

NextPrio == AnalyzeDependencies \/ PrioritizeTasks

SpecPrio == InitPrio /\ [][NextPrio]_vars

(***************************************************************************)
(* Python numbers of the estimator: an int n is [int |-> n], a float is a  *)
(* Float.  No number here is negative.                                     *)
(***************************************************************************)
PyInt(n) == [int |-> n]

IsPyInt(v) == DOMAIN v = {"int"}

\* the float an int is converted to when it meets a float
AsFloat(v) == IF IsPyInt(v) THEN FloatFromInt[v.int] ELSE v

\* v > 0
Positive(v) == AsFloat(v).m # <<>>

\* a * 2^70 / n rounded once, for a natural number a of any size
FloatQuotBig[a \in Big, n \in Nat] ==
    TheOne({FloatRound[BigTrim[dv.q], -(5 * LimbBits), dv.r # 0] :
            dv \in {BigDivSmall[<<0, 0, 0, 0, 0>> \o a, n]}})

\* float("<int digits>.<fraction digits>"): the nearest float to the decimal
FloatOfDecimal(int_digits, frac_digits) ==
    FloatQuotBig[DigitsToBig(int_digits \o frac_digits), 10 ^ Len(frac_digits)]

\* the value of a natural number of a few limbs
RECURSIVE BigToInt(_)
BigToInt(a) == IF a = <<>> THEN 0 ELSE Head(a) + Base * BigToInt(Tail(a))

\* round(x) for a float x >= 0: the nearest int, a tie going to the even one
RoundToInt(x) ==
    IF x.m = <<>> THEN 0
    ELSE IF x.e >= 0 THEN BigToInt(BigTrim[BigShl[x.m, x.e]])
    ELSE TheOne({TheOne({BigToInt(h) +
                         (IF /\ g.q # <<>> /\ Head(g.q) % 2 = 1
                             /\ (g.lost \/ (h # <<>> /\ Head(h) % 2 = 1))
                          THEN 1 ELSE 0) :
                         h \in {BigTrim[BigShr[g.q, 1].q]}}) :
                 g \in {BigShr[x.m, (-x.e) - 1]}})

(***************************************************************************)
(* Estimator (task_generation/estimator.py)                                *)
(***************************************************************************)
\* self.complexity_factors: the float literals 0.8, 1.0, 1.5, 2.0
ComplexityFactors ==
    [c \in {"Low", "Medium", "High", "Very High"} |->
        CASE c = "Low"       -> FloatQuot[8, 10]
          [] c = "Medium"    -> FloatFromInt[1]
          [] c = "High"      -> FloatQuot[15, 10]
          [] c = "Very High" -> FloatFromInt[2]]

\* self.base_estimates
BaseEstimates ==
    (<<"B", "a", "c", "k", "e", "n", "d">> :> 8) @@
    (<<"F", "r", "o", "n", "t", "e", "n", "d">> :> 6) @@
    (<<"D", "a", "t", "a", "b", "a", "s", "e">> :> 4) @@
    (<<"I", "n", "f", "r", "a", "s", "t", "r", "u", "c", "t", "u", "r", "e">> :> 6) @@
    (<<"A", "u", "t", "h", "e", "n", "t", "i", "c", "a", "t", "i", "o", "n">> :> 8) @@
    (<<"T", "e", "s", "t", "i", "n", "g">> :> 4) @@
    (<<"D", "o", "c", "u", "m", "e", "n", "t", "a", "t", "i", "o", "n">> :> 2)

\* self.default_base_estimate
DefaultBaseEstimate == 6

\* the units of the estimate pattern, (hour|hours|day|days|week|weeks), in
\* the order the alternation tries them
UnitWords ==
    <<<<"h", "o", "u", "r">>, <<"h", "o", "u", "r", "s">>, <<"d", "a", "y">>, <<"d", "a", "y", "s">>, <<"w", "e", "e", "k">>, <<"w", "e", "e", "k", "s">>>>

NoMatch == [found |-> FALSE]

\* \d+(\.\d+)?\s*(hour|hours|day|days|week|weeks), re.IGNORECASE, matched
\* with its first character at position i.  Each part is taken as long as it
\* goes: a shorter run of digits or of white space is followed by a
\* character of the same class, which no later part of the pattern accepts.
MatchAt(s, i) ==
    IF ~(i <= Len(s) /\ IsDigit(s[i])) THEN NoMatch
    ELSE LET j == DigitsEnd(s, i)
             k == IF j < Len(s) /\ s[j] = "." /\ IsDigit(s[j + 1])
                  THEN DigitsEnd(s, j + 1) ELSE j
             u == SpacesEnd(s, k)
             units == {n \in DOMAIN UnitWords : WordAt(LowerStr(s), u, UnitWords[n])}
         IN  IF units = {} THEN NoMatch
             ELSE [found |-> TRUE,
                   int   |-> SubSeq(s, i, j - 1),
                   frac  |-> SubSeq(s, j + 1, k - 1),
                   unit  |-> UnitWords[CHOOSE n \in units : \A o \in units : n <= o]]

\* re.search: the match at the first position that has one
Search(s) ==
    LET starts == {i \in DOMAIN s : MatchAt(s, i).found}
    IN  IF starts = {} THEN NoMatch
        ELSE MatchAt(s, CHOOSE i \in starts : \A o \in starts : i <= o)

\* _is_valid_estimate
IsValidEstimate(s) == Search(s).found

\* _parse_estimate with days of 24 hours
ParseEstimateLongDays(s) ==
    LET match == Search(s) IN
    IF ~match.found THEN PyInt(0)
    ELSE LET value == FloatOfDecimal(match.int, match.frac)
             unit  == match.unit
         IN  IF unit \in {<<"h", "o", "u", "r">>, <<"h", "o", "u", "r", "s">>} THEN value
             ELSE IF unit \in {<<"d", "a", "y">>, <<"d", "a", "y", "s">>} THEN FloatMul[value, FloatFromInt[24]]
             ELSE IF unit \in {<<"w", "e", "e", "k">>, <<"w", "e", "e", "k", "s">>} THEN FloatMul[value, FloatFromInt[40]]
             ELSE PyInt(0)

\* _parse_estimate: an int 0 without a match, else a float
ParseEstimate(s) ==
    LET match == Search(s) IN
    IF ~match.found THEN PyInt(0)
    ELSE LET value == FloatOfDecimal(match.int, match.frac)
             unit  == match.unit
         IN  IF unit \in {<<"h", "o", "u", "r">>, <<"h", "o", "u", "r", "s">>} THEN value
             ELSE IF unit \in {<<"d", "a", "y">>, <<"d", "a", "y", "s">>} THEN FloatMul[value, FloatFromInt[8]]
             ELSE IF unit \in {<<"w", "e", "e", "k">>, <<"w", "e", "e", "k", "s">>} THEN FloatMul[value, FloatFromInt[40]]
             ELSE PyInt(0)

\* complexity_indicators, in the order of the dict
ComplexityIndicators ==
    <<[complexity |-> "Very High",
       indicators |-> {<<"c", "o", "m", "p", "l", "e", "x">>, <<"c", "h", "a", "l", "l", "e", "n", "g", "i", "n", "g">>, <<"d", "i", "f", "f", "i", "c", "u", "l", "t">>, <<"a", "d", "v", "a", "n", "c", "e", "d">>,
                       <<"s", "o", "p", "h", "i", "s", "t", "i", "c", "a", "t", "e", "d">>}],
      [complexity |-> "High",
       indicators |-> {<<"i", "n", "t", "e", "g", "r", "a", "t", "e">>, <<"o", "p", "t", "i", "m", "i", "z", "e">>, <<"s", "e", "c", "u", "r", "e">>, <<"s", "c", "a", "l", "e">>,
                       <<"r", "e", "f", "a", "c", "t", "o", "r">>}],
      [complexity |-> "Low",
       indicators |-> {<<"s", "i", "m", "p", "l", "e">>, <<"b", "a", "s", "i", "c">>, <<"s", "t", "r", "a", "i", "g", "h", "t", "f", "o", "r", "w", "a", "r", "d">>, <<"e", "a", "s", "y">>}]>>

\* _determine_complexity with the families tried from the last to the first
DetermineComplexityLastFirst(task) ==
    LET description == LowerStr(Get(task, "description", <<>>))
        name        == LowerStr(Get(task, "name", <<>>))
        notes       == LowerStr(Get(task, "notes", <<>>))
        text        == name \o <<" ">> \o description \o <<" ">> \o notes
        hits        == {n \in DOMAIN ComplexityIndicators :
                           \E w \in ComplexityIndicators[n].indicators :
                               Contains(text, w)}
    IN  IF hits = {} THEN "Medium"
        ELSE ComplexityIndicators[CHOOSE n \in hits : \A o \in hits : n >= o].complexity

\* _determine_complexity
DetermineComplexity(task) ==
    LET description == LowerStr(Get(task, "description", <<>>))
        name        == LowerStr(Get(task, "name", <<>>))
        notes       == LowerStr(Get(task, "notes", <<>>))
        text        == name \o <<" ">> \o description \o <<" ">> \o notes
        hits        == {n \in DOMAIN ComplexityIndicators :
                           \E w \in ComplexityIndicators[n].indicators :
                               Contains(text, w)}
    IN  IF hits = {} THEN "Medium"
        ELSE ComplexityIndicators[CHOOSE n \in hits : \A o \in hits : n <= o].complexity

\* lines 62-80: the computed estimate of a task whose category is a str
ComputedHours(task) ==
    LET category          == StripStr(Get(task, "category", <<>>))
        base_estimate     == Get(BaseEstimates, category, DefaultBaseEstimate)
        complexity        == DetermineComplexity(task)
        complexity_factor == Get(ComplexityFactors, complexity, FloatFromInt[1])
        estimated_hours   == FloatMul[FloatFromInt[base_estimate], complexity_factor]
        dependency_count  == Len(Get(task, "dependencies", <<>>))
    IN  RoundToInt(IF dependency_count > 2
                   THEN FloatMul[estimated_hours,
                                 FloatAdd[FloatFromInt[1],
                                          FloatMul[FloatFromInt[dependency_count - 2],
                                                   FloatQuot[1, 10]]]]
                   ELSE estimated_hours)

\* the estimate taken from the task's own string: [used, hours]
ExistingEstimate(task) ==
    LET existing_estimate == Get(task, "estimate", <<>>) IN
    IF existing_estimate # <<>> /\ IsValidEstimate(existing_estimate)
    THEN TheOne({[used |-> Positive(h), hours |-> h] :
                 h \in {ParseEstimate(existing_estimate)}})
    ELSE [used |-> FALSE]

\* lines 82-88 without the test of line 86: the formatted estimate is written
\* over any estimate the task has
WithComputedOverwrites(task, estimated_hours) ==
    Put(Put(Put(task, "estimated_hours", PyInt(estimated_hours)),
            "complexity", DetermineComplexity(task)),
        "estimate", IntToStr(estimated_hours) \o <<" ">> \o <<"h", "o", "u", "r", "s">>)

\* lines 82-88: the computed estimate written into the task
WithComputed(task, estimated_hours) ==
    LET t1 == Put(Put(task, "estimated_hours", PyInt(estimated_hours)),
                  "complexity", DetermineComplexity(task))
    IN  IF "estimate" \notin DOMAIN t1 \/ t1["estimate"] = <<>>
        THEN Put(t1, "estimate", IntToStr(estimated_hours) \o <<" ">> \o <<"h", "o", "u", "r", "s">>)
        ELSE t1

\* one pass of the loop of estimate_tasks with the continue of line 60 taken
\* for every valid existing estimate, also one of 0 hours
EstimateTaskSkipsZero(task) ==
    LET existing_estimate == Get(task, "estimate", <<>>) IN
    IF existing_estimate # <<>> /\ IsValidEstimate(existing_estimate)
    THEN [task |-> IF ExistingEstimate(task).used
                   THEN Put(task, "estimated_hours", ExistingEstimate(task).hours)
                   ELSE task,
          exc  |-> "none"]
    ELSE IF Get(task, "category", <<>>) = NoneStr
    THEN [task |-> task, exc |-> "AttributeError"]
    ELSE [task |-> WithComputed(task, ComputedHours(task)), exc |-> "none"]

\* one pass of the loop of estimate_tasks: [task, exc]; None has no strip()
EstimateTask(task) ==
    TheOne({IF existing.used
            THEN [task |-> Put(task, "estimated_hours", existing.hours),
                  exc  |-> "none"]
            ELSE IF Get(task, "category", <<>>) = NoneStr
            THEN [task |-> task, exc |-> "AttributeError"]
            ELSE [task |-> WithComputed(task, ComputedHours(task)), exc |-> "none"] :
            existing \in {ExistingEstimate(task)}})

\* the loop from task k on: [tasks, exc]; on an exception the list is the
\* caller's, with the tasks before k estimated
RECURSIVE EstimateFrom(_, _)
EstimateFrom(ts, k) ==
    IF k > Len(ts) THEN [tasks |-> ts, exc |-> "none"]
    ELSE TheOne({IF one.exc # "none" THEN [tasks |-> ts, exc |-> one.exc]
                 ELSE EstimateFrom([ts EXCEPT ![k] = one.task], k + 1) :
                 one \in {EstimateTask(ts[k])}})

\* Estimator.estimate_tasks
EstimateTasks ==
    /\ pc = "prioritized"
    /\ \E out \in {EstimateFrom(tasks, 1)} :
        /\ tasks' = out.tasks
        /\ exc' = out.exc
        /\ pc' = IF out.exc = "none" THEN "estimated" ELSE "raised"
    /\ UNCHANGED <<input, graph, parserVars, estimateVars, serviceVars>>

\* Estimator._parse_estimate
ParseEstimateCall ==
    /\ pc = "call"
    /\ hours' = ParseEstimate(estimate)
    /\ pc' = "returned"
    /\ UNCHANGED <<tasks, input, graph, exc, parserVars, estimate, serviceVars>>

(***************************************************************************)
(* Estimate strings handed to _parse_estimate: a number, white space and a *)
(* unit, after a prefix; and strings without a number or without a unit.   *)
(***************************************************************************)
\* the numbers 0..MaxHours are written out in estimate strings
MaxHours == 12

\* 2^50 - 1 and 2^53 + 1
LargeNumbers == {<<"1", "1", "2", "5", "8", "9", "9", "9", "0", "6", "8", "4", "2", "6", "2", "3">>, <<"9", "0", "0", "7", "1", "9", "9", "2", "5", "4", "7", "4", "0", "9", "9", "3">>}

EstimateNumbers == {IntToStr(n) : n \in 0..MaxHours} \cup LargeNumbers

EstimateFractions == {<<>>, <<".", "5">>, <<".", "2", "5">>}

\* no gap, a space, and a tab, a carriage return and a no-break space (0xa0)
EstimateGaps == {<<>>, <<" ">>, <<"\t", "\r", " ">>}

EstimateUnits ==
    Range(UnitWords) \cup {<<"D", "a", "y", "s">>, <<"W", "E", "E", "K", "S">>, <<"H", "o", "u", "r">>, <<"h", "r">>, <<"m", "i", "n", "u", "t", "e", "s">>}

EstimatePrefixes == {<<>>, <<"a", "b", "o", "u", "t", " ">>, <<"x", "1", " ">>, <<"3", " ", "h", "o", "u", "r", "s", " ", "o", "r", " ">>}

EstimateStrings ==
    {p \o n \o f \o g \o u :
        p \in EstimatePrefixes, n \in EstimateNumbers, f \in EstimateFractions,
        g \in EstimateGaps, u \in EstimateUnits}
    \cup {<<>>, <<"s", "o", "o", "n">>, <<"t", "w", "o", " ", "d", "a", "y", "s">>, <<"5">>, <<"d", "a", "y", "s", " ", "5">>, <<"1", ".", "5">>, <<"4", " ", ".", " ", "d", "a", "y", "s">>}

InitParseEstimate ==
    /\ estimate \in EstimateStrings
    /\ hours = None
    /\ pc = "call"
    /\ tasks = <<>>
    /\ input = <<>>
    /\ graph = {}
    /\ exc = "none"
    /\ NoService
    /\ task_text = <<>>
    /\ line_no = 0
    /\ current_category = NoneStr

NextParseEstimate == ParseEstimateCall

SpecParseEstimate == InitParseEstimate /\ [][NextParseEstimate]_vars

(***************************************************************************)
(* Batches handed to the estimator: one or two tasks, each with an         *)
(* estimate string, a category, a name and up to MaxEstDeps dependencies.  *)
(***************************************************************************)
MaxEstDeps == 4

\* a category the parser never stripped is among them
EstCategories == {NoneStr, <<"B", "a", "c", "k", "e", "n", "d">>, <<" ", "D", "a", "t", "a", "b", "a", "s", "e", " ">>, <<"M", "o", "b", "i", "l", "e">>}

EstEstimates ==
    {<<>>, <<"0", " ", "h", "o", "u", "r", "s">>, <<"2", " ", "d", "a", "y", "s">>, <<"1", ".", "5", " ", "h", "o", "u", "r", "s">>, <<"s", "o", "o", "n">>, <<"1", " ", "W", "E", "E", "K">>,
     <<"0", ".", "0", " ", "d", "a", "y", "s">>, <<"1", "2", "h", "o", "u", "r", "s">>}

EstNames == {<<"S", "e", "t", "u", "p", " ", "D", "B">>, <<"S", "e", "c", "u", "r", "e", " ", "A", "P", "I">>, <<"S", "i", "m", "p", "l", "e", " ", "c", "o", "m", "p", "l", "e", "x", " ", "U", "I">>, <<"B", "a", "s", "i", "c", " ", "p", "a", "g", "e">>}

\* n dependency ids; the estimator only counts them
EstDeps(n) == [i \in 1..n |-> TaskIds[((i - 1) % Len(TaskIds)) + 1]]

EstimatorTask(id, category, est, name, n) ==
    [ParsedTask(id, category, "Medium", EstDeps(n))
        EXCEPT !["estimate"] = est, !["name"] = name]

\* the second task of a batch
EstSecondTasks ==
    {EstimatorTask("T2", NoneStr, <<>>, <<"B", "u", "i", "l", "d", " ", "A", "P", "I">>, 0),
     EstimatorTask("T2", <<"B", "a", "c", "k", "e", "n", "d">>, <<"2", " ", "d", "a", "y", "s">>, <<"B", "u", "i", "l", "d", " ", "A", "P", "I">>, 0),
     [EstimatorTask("T2", <<"T", "e", "s", "t", "i", "n", "g">>, <<"l", "a", "t", "e", "r">>, <<"C", "h", "e", "c", "k">>, 3)
        EXCEPT !["description"] = <<"E", "a", "s", "y", " ", "t", "o", " ", "i", "n", "t", "e", "g", "r", "a", "t", "e">>],
     [id |-> "T2"]}

InitEst ==
    /\ \E c \in EstCategories, est \in EstEstimates, name \in EstNames,
          n \in 0..MaxEstDeps :
         \/ tasks = <<EstimatorTask("T1", c, est, name, n)>>
         \/ \E second \in EstSecondTasks :
                tasks = <<EstimatorTask("T1", c, est, name, n), second>>
    /\ input = tasks
    /\ graph = {}
    /\ pc = "prioritized"
    /\ exc = "none"
    /\ NoService
    /\ NoCall

NextEst == EstimateTasks

SpecEst == InitEst /\ [][NextEst]_vars

(***************************************************************************)
(* TaskCreator._parse_tasks (task_generation/task_creator.py), one action  *)
(* for each pass of its loop over the lines and one for its return.        *)
(***************************************************************************)
\* str.split("\n"): the pieces between the line feeds
RECURSIVE SplitLines(_)
SplitLines(text) ==
    IF \A i \in DOMAIN text : text[i] # "\n" THEN <<text>>
    ELSE LET n == CHOOSE i \in DOMAIN text :
                      text[i] = "\n" /\ \A j \in 1..(i - 1) : text[j] # "\n"
         IN  <<SubSeq(text, 1, n - 1)>> \o SplitLines(SubSeq(text, n + 1, Len(text)))

\* line 175: the test for a category header, on a stripped line that is not
\* empty
IsCategoryHeader(line) ==
    \/ line[1] = "#"
    \/ IsUpperStr(line)
    \/ Len(line) < 30 /\ \A i \in DOMAIN line : line[i] # ":"

\* line 176: line.strip("#").strip()
CategoryName(line) == StripStr(StripChars(line, {"#"}))

\* the stripped line the next pass of the loop works on
CurrentLine == StripStr(SplitLines(task_text)[line_no + 1])

\* One pass of the loop, lines 169-240.  A line that is neither empty nor a
\* category header reaches re.match on line 180; the module does not import
\* re (lines 5-12), so the name lookup raises NameError.  No pass gets
\* beyond line 180: current_task stays None and tasks stays empty.
ParseLine ==
    /\ pc = "parsing"
    /\ line_no < Len(SplitLines(task_text))
    /\ line_no' = line_no + 1
    /\ IF CurrentLine = <<>>
       THEN UNCHANGED <<current_category, pc, exc>>
       ELSE IF IsCategoryHeader(CurrentLine)
       THEN /\ current_category' = CategoryName(CurrentLine)
            /\ UNCHANGED <<pc, exc>>
       ELSE /\ pc' = "raised"
            /\ exc' = "NameError"
            /\ UNCHANGED current_category
    /\ UNCHANGED <<tasks, input, graph, task_text, estimateVars, serviceVars>>

\* lines 242-246 after the last line: current_task is None, so nothing is
\* appended and the empty list is returned to create_tasks
ParseReturn ==
    /\ pc = "parsing"
    /\ line_no = Len(SplitLines(task_text))
    /\ tasks' = <<>>
    /\ input' = tasks'
    /\ pc' = "parsed"
    /\ UNCHANGED <<graph, exc, parserVars, estimateVars, serviceVars>>

(***************************************************************************)
(* TaskCreator.create_tasks from the text on: the text is any sequence of  *)
(* up to MaxLines lines, or one of the longer texts of TaskLists.          *)
(***************************************************************************)
MaxLines == 2

TextLines ==
    {<<>>, <<" ", " ">>, <<"B", "A", "C", "K", "E", "N", "D">>, <<"#", " ", "B", "a", "c", "k", "e", "n", "d">>, <<"#", "#", " ", "D", "a", "t", "a", "b", "a", "s", "e", " ", "#", "#">>, <<"S", "e", "t", "u", "p", " ", "n", "o", "t", "e", "s">>,
     <<"B", "A", "C", "K", "E", "N", "D", ":", " ", "A", "P", "I">>, <<"T", "1", " ", "S", "e", "t", "u", "p">>, <<"T", "1", ":", " ", "F", "o", "o">>, <<"T", "2", ":", " ", "B", "a", "r">>, <<"T", "1", ":", " ", "S", "E", "T", "U", "P", " ", "D", "B">>,
     <<"P", "r", "i", "o", "r", "i", "t", "y", ":", " ", "H", "i", "g", "h">>, <<"E", "r", "r", "o", "r", " ", "g", "e", "n", "e", "r", "a", "t", "i", "n", "g", " ", "t", "a", "s", "k", "s", ".", " ", "P", "l", "e", "a", "s", "e", " ", "t", "r", "y", " ", "a", "g", "a", "i", "n", ".">>,
     <<"#", " ", "A", " ", "h", "e", "a", "d", "i", "n", "g", " ", "o", "f", " ", "m", "o", "r", "e", " ", "t", "h", "a", "n", " ", "t", "h", "i", "r", "t", "y", " ", "c", "h", "a", "r", "a", "c", "t", "e", "r", "s">>,
     <<"T", "H", "E", " ", "B", "A", "C", "K", "E", "N", "D", " ", "T", "A", "S", "K", "S", " ", "O", "F", " ", "T", "H", "E", " ", "F", "I", "R", "S", "T", " ", "R", "E", "L", "E", "A", "S", "E">>}

\* "\n".join(ls)
RECURSIVE JoinLines(_)
JoinLines(ls) ==
    IF Len(ls) = 1 THEN ls[1] ELSE ls[1] \o <<"\n">> \o JoinLines(Tail(ls))

\* a task list as the generation prompt asks for it: two tasks, the second
\* depending on the first
PipelineText ==
    JoinLines(<<<<"T", "1", ":", " ", "S", "e", "t", "u", "p", " ", "D", "B">>, <<"C", "a", "t", "e", "g", "o", "r", "y", ":", " ", "D", "a", "t", "a", "b", "a", "s", "e">>, <<"P", "r", "i", "o", "r", "i", "t", "y", ":", " ", "H", "i", "g", "h">>, <<>>,
                <<"T", "2", ":", " ", "B", "u", "i", "l", "d", " ", "A", "P", "I">>, <<"D", "e", "p", "e", "n", "d", "e", "n", "c", "i", "e", "s", ":", " ", "T", "1">>, <<"C", "a", "t", "e", "g", "o", "r", "y", ":", " ", "B", "a", "c", "k", "e", "n", "d">>,
                <<"P", "r", "i", "o", "r", "i", "t", "y", ":", " ", "C", "r", "i", "t", "i", "c", "a", "l">>>>)

TaskLists ==
    {PipelineText,
     JoinLines(<<<<"T", "1", ":", " ", "F", "o", "o">>, <<"T", "2", ":", " ", "B", "a", "r">>, <<"T", "3", ":", " ", "B", "a", "z">>>>),
     JoinLines(<<<<"B", "A", "C", "K", "E", "N", "D">>, <<"T", "1", ":", " ", "F", "o", "o">>, <<"P", "r", "i", "o", "r", "i", "t", "y", ":", " ", "H", "i", "g", "h">>, <<"T", "2", ":", " ", "B", "a", "r">>>>),
     JoinLines(<<<<"T", "1", ":", " ", "F", "o", "o">>, <<"T", "2", ":", " ", "B", "a", "r">>, <<"T", "3", ":", " ", "B", "a", "z">>, <<"D", "e", "p", "e", "n", "d", "s", " ", "o", "n", " ", "T", "1", ",", " ", "T", "2">>>>)}

TaskTexts ==
    UNION {{JoinLines(ls) : ls \in [1..n -> TextLines]} : n \in 1..MaxLines}
    \cup TaskLists

InitCreate ==
    /\ task_text \in TaskTexts
    /\ line_no = 0
    /\ current_category = NoneStr
    /\ tasks = <<>>
    /\ input = <<>>
    /\ graph = {}
    /\ pc = "parsing"
    /\ exc = "none"
    /\ NoService
    /\ estimate = <<>>
    /\ hours = None

NextCreate ==
    \/ ParseLine
    \/ ParseReturn
    \/ AnalyzeDependencies
    \/ PrioritizeTasks
    \/ EstimateTasks

SpecCreate == InitCreate /\ [][NextCreate]_vars

(***************************************************************************)
(* The stages of create_tasks after the parser (task_creator.py, lines     *)
(* 47-54), on batches of two or three parsed tasks; a batch may hold two   *)
(* tasks of one id.                                                        *)
(***************************************************************************)
PipeIds == {<<"T1", "T2">>, <<"T1", "T1">>, <<"T1", "T2", "T3">>, <<"T2", "T1", "T2">>}

\* category and priority of a task
PipeKinds ==
    {[category |-> <<"B", "a", "c", "k", "e", "n", "d">>, priority |-> "Critical"],
     [category |-> <<"T", "e", "s", "t", "i", "n", "g">>, priority |-> "Low"],
     [category |-> NoneStr, priority |-> "Low"]}

PipeEstimates == {<<>>, <<"2", " ", "d", "a", "y", "s">>}

PipeDeps == {<<>>, <<"T1">>, <<"T2">>}

InitPipe ==
    /\ \E ids \in PipeIds :
       \E k \in [DOMAIN ids -> PipeKinds] :
       \E est \in [DOMAIN ids -> PipeEstimates] :
       \E d \in [DOMAIN ids -> PipeDeps] :
        tasks = [i \in DOMAIN ids |->
                    [ParsedTask(ids[i], k[i].category, k[i].priority, d[i])
                        EXCEPT !["estimate"] = est[i]]]
    /\ input = tasks
    /\ graph = {}
    /\ pc = "parsed"
    /\ exc = "none"
    /\ NoService
    /\ NoCall

NextPipe == AnalyzeDependencies \/ PrioritizeTasks \/ EstimateTasks

SpecPipe == InitPipe /\ [][NextPipe]_vars

(***************************************************************************)
(* TaskCreator.create_tasks from the generation call on                    *)
(* (task_creator.py, lines 40-44 and 128-150): _process_with_ai calls      *)
(* OpenRouterClient.generate_completion (utils/openrouter_client.py, lines *)
(* 41-139) and hands what it gets to _parse_tasks.                         *)
(***************************************************************************)
\* openrouter_client.py, line 95
max_retries == 3

\* openrouter_client.py, line 60: the text returned without an API key
NoApiKeyText ==
    <<"E", "r", "r", "o", "r", ":", " ", "O", "p", "e", "n", "R", "o", "u", "t", "e", "r", " ", "A", "P", "I", " ", "k", "e", "y", " ", "n", "o", "t", " ", "s", "e", "t", ".", " ", "P", "l", "e", "a", "s", "e", " ", "s", "e", "t", " ", "t", "h", "e", " ", "O", "P", "E", "N", "R", "O", "U", "T", "E", "R", "_", "A", "P", "I", "_", "K", "E", "Y", " ", "e", "n", "v", "i", "r", "o", "n", "m", "e", "n", "t", " ", "v", "a", "r", "i", "a", "b", "l", "e", ".">>

\* openrouter_client.py, line 139: the text returned after the last attempt
AttemptsFailedText ==
    <<"E", "r", "r", "o", "r", ":", " ", "F", "a", "i", "l", "e", "d", " ", "t", "o", " ", "g", "e", "n", "e", "r", "a", "t", "e", " ", "c", "o", "m", "p", "l", "e", "t", "i", "o", "n", " ", "a", "f", "t", "e", "r", " ", "m", "u", "l", "t", "i", "p", "l", "e", " ", "a", "t", "t", "e", "m", "p", "t", "s", ".">>

\* task_creator.py, line 150: the text _process_with_ai returns when the
\* call raises
ProcessErrorText == <<"E", "r", "r", "o", "r", " ", "g", "e", "n", "e", "r", "a", "t", "i", "n", "g", " ", "t", "a", "s", "k", "s", ".", " ", "P", "l", "e", "a", "s", "e", " ", "t", "r", "y", " ", "a", "g", "a", "i", "n", ".">>

\* what client.post of one attempt brings: a 200 answer, an answer of another
\* status, or an exception
PostOutcomes == {"ok", "status", "exception"}

\* generate_completion up to its loop, lines 58-92, inside the try of
\* _process_with_ai: without an API key it returns the text of line 60; an
\* exception of these lines is caught on line 148 and the text of line 150
\* is returned; otherwise the loop starts with the default model.  The text
\* returned is what create_tasks passes to _parse_tasks on line 44.
GenerateCompletion ==
    /\ pc = "generating"
    /\ ai_call.model = "none"
    /\ \E start \in {"no_key", "raises", "request"} :
         CASE start = "no_key" ->
                /\ task_text' = NoApiKeyText
                /\ ai_outcome' = "error_returned"
                /\ pc' = "parsing"
                /\ UNCHANGED ai_call
           [] start = "raises" ->
                /\ task_text' = ProcessErrorText
                /\ ai_outcome' = "raised"
                /\ pc' = "parsing"
                /\ UNCHANGED ai_call
           [] start = "request" ->
                /\ ai_call' = [model |-> "default", attempt |-> 0]
                /\ UNCHANGED <<task_text, ai_outcome, pc>>
    /\ UNCHANGED <<tasks, input, graph, exc, line_no, current_category,
                   estimateVars, queueVars, limitVars>>

\* One pass of the loop of lines 96-136, and the return of line 139 after the
\* last one.  A 200 answer returns the completion; another status on the last
\* attempt of the default model calls generate_completion again with the
\* fallback model and returns what that call returns; any other failure
\* goes to the next attempt.
Attempt ==
    /\ pc = "generating"
    /\ ai_call.model # "none"
    /\ \E post \in PostOutcomes :
         IF post = "ok"
         THEN /\ task_text' \in TaskTexts
              /\ ai_outcome' = "completed"
              /\ ai_call' = [model |-> "none", attempt |-> 0]
              /\ pc' = "parsing"
         ELSE IF post = "status" /\ ai_call.model # "fallback"
                    /\ ai_call.attempt = max_retries - 1
         THEN /\ ai_call' = [model |-> "fallback", attempt |-> 0]
              /\ UNCHANGED <<task_text, ai_outcome, pc>>
         ELSE IF ai_call.attempt + 1 < max_retries
         THEN /\ ai_call' = [ai_call EXCEPT !.attempt = @ + 1]
              /\ UNCHANGED <<task_text, ai_outcome, pc>>
         ELSE /\ task_text' = AttemptsFailedText
              /\ ai_outcome' = "error_returned"
              /\ ai_call' = [model |-> "none", attempt |-> 0]
              /\ pc' = "parsing"
    /\ UNCHANGED <<tasks, input, graph, exc, line_no, current_category,
                   estimateVars, queueVars, limitVars>>

InitGenerate ==
    /\ pc = "generating"
    /\ tasks = <<>>
    /\ input = <<>>
    /\ graph = {}
    /\ exc = "none"
    /\ NoCall
    /\ NoService

NextGenerate ==
    \/ GenerateCompletion
    \/ Attempt
    \/ ParseLine
    \/ ParseReturn
    \/ AnalyzeDependencies
    \/ PrioritizeTasks
    \/ EstimateTasks

SpecGenerate == InitGenerate /\ [][NextGenerate]_vars

(***************************************************************************)
(* QueueManager (utils/queue_manager.py) with the worker threads of        *)
(* start(), and the two follow-up endpoints of api/routes.py.  A task id   *)
(* is the item's place in the order of the enqueue_task calls that stored  *)
(* a task (uuid4 of line 104 gives every call an id of its own); 0 is an   *)
(* id no call gave.  A thread is its place in the order of creation.  The  *)
(* worker threads, the thread that calls start(), stop() and               *)
(* clean_old_tasks(), and the callers of register_handler, of enqueue_task *)
(* and of the endpoints interleave between the statements that read or     *)
(* write the manager's fields.  enqueue_task stores the task (line 108)    *)
(* and puts its id into the queue (line 111) in two steps: in between the  *)
(* task is pending, in no queue and held by no thread.  A completion time  *)
(* is the number of the time.time() reading of line 202 or 210 that gave   *)
(* it, the readings of the worker threads numbered from 1 in their order:  *)
(* the clock is taken not to go back, and two readings not to give the     *)
(* same time.  completed_at None is 0, no time.  current_time of line 221  *)
(* lies between the readings before it and those after it.                 *)
(***************************************************************************)
\* api/routes.py, line 93: QueueManager(num_workers=2)
num_workers == 2

\* how many enqueue_task calls store a task
MaxItems == 2

\* how many start() calls create threads
MaxStarts == 2

\* how many threads and stored tasks a run has together
MaxLoad == 5

\* the handlers api/routes.py registers on lines 180-182: each is defined
\* with async def (lines 101, 127, 150), so a call of it returns a coroutine
RoutesHandlers ==
    [process_video |-> "async def", generate_specification |-> "async def",
     create_tasks |-> "async def"]

\* what a later caller of register_handler registers: a handler as the
\* signature of line 53 has it, a plain function from the data to a result
Registrations == {<<"job", "def">>}

\* what the call handler(task.data) of line 197 can bring: a coroutine
\* function returns its coroutine object without running its body; a plain
\* function returns its result or raises
CallOutcomes(handler) ==
    IF handler = "async def" THEN {"<coroutine>"} ELSE {"<result>", "<exception>"}

\* the Task of lines 16-26 that enqueue_task stores
NewTask(task_type) ==
    [type |-> task_type, status |-> "pending", result |-> None, error |-> None,
     completed_at |-> 0]

\* a thread as threading.Thread(target=self._worker_loop).start() leaves it
NewThread ==
    [pc |-> "while", task_id |-> 0, handler |-> "none", outcome |-> "none", time |-> 0]

\* the threads that have not left _worker_loop
LiveThreads == {t \in DOMAIN threads : threads[t].pc # "stopped"}

\* str(uuid.uuid4()) of line 104: the id after the ids given so far
NewTaskId == Len(dequeued) + 1

\* the threads the start() call under way has yet to create
ThreadsDue ==
    IF caller.pc = "thread" THEN num_workers - caller.i
    ELSE IF caller.pc = "append" THEN num_workers - caller.i - 1
    ELSE 0

\* the threads of the start() calls so far and the tasks stored so far
Load == Len(threads) + ThreadsDue + Len(dequeued)

\* a get that leaves the id it returns in the queue
QueueGetKeepsItem(queue) == [task_id |-> Head(queue), queue |-> queue]

\* Queue.get on the ids Queue.put appended: the oldest id, and the queue
\* without it
QueueGet(queue) == [task_id |-> Head(queue), queue |-> Tail(queue)]

\* register_handler, line 62
RegisterHandler(task_type, handler) ==
    /\ handlers' = Put(handlers, task_type, handler)
    /\ UNCHANGED <<queue_tasks, task_queue, workers, running, threads, caller,
                   dequeued, invoked, response, putting, time_time, pipelineVars, aiVars, limitVars>>

\* start(), lines 66-70: the test of running, and running = True
StartBegin ==
    /\ caller = Idle
    /\ IF running
       THEN UNCHANGED <<running, caller>>
       ELSE /\ Len(threads) + num_workers <= MaxStarts * num_workers
            /\ Load + num_workers <= MaxLoad
            /\ running' = TRUE
            /\ caller' = [Idle EXCEPT !.pc = "thread"]
    /\ UNCHANGED <<queue_tasks, task_queue, handlers, workers, threads, dequeued,
                   invoked, response, putting, time_time, pipelineVars, aiVars, limitVars>>

\* start(), lines 73-74 of pass i of the loop: the thread is created and
\* started
StartThread ==
    /\ caller.pc = "thread"
    /\ threads' = Append(threads, NewThread)
    /\ caller' = [caller EXCEPT !.pc = "append"]
    /\ UNCHANGED <<queue_tasks, task_queue, handlers, workers, running, dequeued,
                   invoked, response, putting, time_time, pipelineVars, aiVars, limitVars>>

\* start(), line 75 of pass i: the thread is appended to workers; after the
\* last pass start() returns
StartAppend ==
    /\ caller.pc = "append"
    /\ workers' = Append(workers, Len(threads))
    /\ caller' = IF caller.i + 1 < num_workers
                 THEN [caller EXCEPT !.pc = "thread", !.i = caller.i + 1]
                 ELSE Idle
    /\ UNCHANGED <<queue_tasks, task_queue, handlers, running, threads, dequeued,
                   invoked, response, putting, time_time, pipelineVars, aiVars, limitVars>>

\* stop(), line 80; the caller then waits in join for each worker that is
\* alive, for one second at most (lines 83-85)
StopBegin ==
    /\ caller = Idle
    /\ running' = FALSE
    /\ caller' = [Idle EXCEPT !.pc = "joining"]
    /\ UNCHANGED <<queue_tasks, task_queue, handlers, workers, threads, dequeued,
                   invoked, response, putting, time_time, pipelineVars, aiVars, limitVars>>

\* stop(), line 87, after the joins ended, each with its thread or with its
\* timeout
StopEnd ==
    /\ caller.pc = "joining"
    /\ workers' = <<>>
    /\ caller' = Idle
    /\ UNCHANGED <<queue_tasks, task_queue, handlers, running, threads, dequeued,
                   invoked, response, putting, time_time, pipelineVars, aiVars, limitVars>>

\* enqueue_task, lines 104-108, for the call `call` on behalf of the item
\* `id`: the task is stored under a new id; the put of line 111 is to come
StoreTask(task_type, call, id) ==
    /\ queue_tasks' = Put(queue_tasks, NewTaskId, NewTask(task_type))
    /\ putting' = putting \cup {[task_id |-> NewTaskId, call |-> call, id |-> id]}
    /\ dequeued' = Append(dequeued, {})
    /\ invoked' = Append(invoked, [calls |-> 0, finished |-> 0])
    /\ UNCHANGED <<task_queue, response>>

\* enqueue_task, lines 100-108: ValueError for a type without a handler,
\* else the task is stored
EnqueueTask(task_type) ==
    IF task_type \notin DOMAIN handlers
    THEN /\ response' = [call |-> "enqueue_task", id |-> 0,
                         code |-> "ValueError", task_id |-> 0]
         /\ UNCHANGED <<queue_tasks, task_queue, handlers, workers, running,
                        threads, caller, dequeued, invoked, putting, time_time, pipelineVars,
                        aiVars, limitVars>>
    ELSE /\ NewTaskId <= MaxItems
         /\ Load + 1 <= MaxLoad
         /\ StoreTask(task_type, "enqueue_task", 0)
         /\ UNCHANGED <<handlers, workers, running, threads, caller,
                        time_time, pipelineVars, aiVars, limitVars>>

\* enqueue_task, lines 111-114: Queue.put, which takes the lock of the queue
\* and so comes after any step of another thread, and the return of the id
\* (for an endpoint, its answer 200 with the id)
QueuePut(p) ==
    /\ p \in putting
    /\ task_queue' = Append(task_queue, p.task_id)
    /\ putting' = putting \ {p}
    /\ response' = [call |-> p.call, id |-> p.id, task_id |-> p.task_id,
                    code |-> IF p.call = "enqueue_task" THEN "returned" ELSE "200"]
    /\ UNCHANGED <<queue_tasks, handlers, workers, running, threads, caller,
                   dequeued, invoked, time_time, pipelineVars, aiVars, limitVars>>

\* _worker_loop, line 155: the test of the while
WorkerLoop(t) ==
    /\ threads[t].pc = "while"
    /\ threads' = [threads EXCEPT ![t].pc = IF running THEN "get" ELSE "stopped"]
    /\ UNCHANGED <<queue_tasks, task_queue, handlers, workers, running, caller,
                   dequeued, invoked, response, putting, time_time, pipelineVars, aiVars, limitVars>>

\* _worker_loop, line 158: get returns the oldest id, or raises Empty after
\* its timeout on an empty queue (lines 166-168)
GetTask(t) ==
    /\ threads[t].pc = "get"
    /\ IF task_queue = <<>>
       THEN /\ threads' = [threads EXCEPT ![t].pc = "while"]
            /\ UNCHANGED <<task_queue, dequeued>>
       ELSE /\ task_queue' = QueueGet(task_queue).queue
            /\ threads' = [threads EXCEPT ![t].pc = "process",
                                          ![t].task_id = QueueGet(task_queue).task_id]
            /\ dequeued' = [dequeued EXCEPT ![QueueGet(task_queue).task_id] = @ \cup {t}]
    /\ UNCHANGED <<queue_tasks, handlers, workers, running, caller, invoked,
                   response, putting, time_time, pipelineVars, aiVars, limitVars>>

\* _process_task, lines 181-197, up to the call of the handler that line 193
\* read
ProcessTask(t) ==
    /\ threads[t].pc = "process"
    /\ IF threads[t].task_id \notin DOMAIN queue_tasks
       THEN /\ threads' = [threads EXCEPT ![t] = NewThread]
            /\ UNCHANGED <<queue_tasks, invoked>>
       ELSE /\ queue_tasks' = [queue_tasks EXCEPT ![threads[t].task_id].status = "processing"]
            /\ invoked' = [invoked EXCEPT ![threads[t].task_id].calls = @ + 1]
            /\ threads' = [threads EXCEPT
                              ![t].pc = "handler",
                              ![t].handler = handlers[queue_tasks[threads[t].task_id].type]]
    /\ UNCHANGED <<task_queue, handlers, workers, running, caller, dequeued,
                   response, putting, time_time, pipelineVars, aiVars, limitVars>>

\* _process_task, line 197 to line 200 or 208: the call ends and the status
\* is set
HandlerEnds(t) ==
    /\ threads[t].pc = "handler"
    /\ \E outcome \in CallOutcomes(threads[t].handler) :
        /\ threads' = [threads EXCEPT ![t].pc = "status set", ![t].outcome = outcome]
        /\ queue_tasks' = [queue_tasks EXCEPT ![threads[t].task_id].status =
                               IF outcome = "<exception>" THEN "failed" ELSE "completed"]
        /\ invoked' = [invoked EXCEPT ![threads[t].task_id].finished =
                               IF outcome = "<coroutine>" THEN @ ELSE @ + 1]
    /\ UNCHANGED <<task_queue, handlers, workers, running, caller, dequeued,
                   response, putting, time_time, pipelineVars, aiVars, limitVars>>

\* _process_task, line 201 or 209
SetResult(t) ==
    /\ threads[t].pc = "status set"
    /\ queue_tasks' =
        IF threads[t].outcome = "<exception>"
        THEN [queue_tasks EXCEPT ![threads[t].task_id].error = "<str(e)>"]
        ELSE [queue_tasks EXCEPT ![threads[t].task_id].result = threads[t].outcome]
    /\ threads' = [threads EXCEPT ![t].pc = "result set"]
    /\ UNCHANGED <<task_queue, handlers, workers, running, caller, dequeued,
                   invoked, response, putting, time_time, pipelineVars, aiVars, limitVars>>

\* _process_task, line 202 or 210: time.time() is read
ReadTime(t) ==
    /\ threads[t].pc = "result set"
    /\ time_time' = time_time + 1
    /\ threads' = [threads EXCEPT ![t].pc = "time read", ![t].time = time_time + 1]
    /\ UNCHANGED <<queue_tasks, task_queue, handlers, workers, running, caller, dequeued,
                   invoked, response, putting, pipelineVars, aiVars, limitVars>>

\* _process_task, line 202 or 210: the time read is stored; and task_done
\* of line 164
SetCompletedAt(t) ==
    /\ threads[t].pc = "time read"
    /\ queue_tasks' = [queue_tasks EXCEPT
                          ![threads[t].task_id].completed_at = threads[t].time]
    /\ threads' = [threads EXCEPT ![t] = NewThread]
    /\ UNCHANGED <<task_queue, handlers, workers, running, caller, dequeued,
                   invoked, response, putting, time_time, pipelineVars, aiVars, limitVars>>

\* lines 227-228 on a task as it is: it is completed or failed, its
\* completed_at is set and lies more than max_age_seconds before
\* current_time, that is, at or before the time cutoff
IsOld(task, cutoff) ==
    /\ task.status \in {"completed", "failed"}
    /\ task.completed_at # 0
    /\ task.completed_at <= cutoff

\* clean_old_tasks, lines 221-223: current_time is read, after the readings
\* of the workers so far and before their later ones.  max_age_hours is not
\* negative: cutoff, the last reading that lies more than max_age_seconds
\* before current_time (0: none does), is one of the readings so far.
CleanBegin(cutoff) ==
    /\ caller = Idle
    /\ cutoff <= time_time
    /\ caller' = [Idle EXCEPT !.pc = "current_time", !.cutoff = cutoff]
    /\ UNCHANGED <<queue_tasks, task_queue, handlers, workers, running, threads,
                   dequeued, invoked, response, putting, time_time, pipelineVars,
                   aiVars, limitVars>>

\* clean_old_tasks, line 226: the loop takes its iterator of the dict, which
\* notes the size of the dict
CleanIter ==
    /\ caller.pc = "current_time"
    /\ caller' = [caller EXCEPT !.pc = "cleaning",
                                !.used = Cardinality(DOMAIN queue_tasks)]
    /\ UNCHANGED <<queue_tasks, task_queue, handlers, workers, running, threads,
                   dequeued, invoked, response, putting, time_time, pipelineVars,
                   aiVars, limitVars>>

\* clean_old_tasks, lines 226-229: one step of the iterator, and the pass of
\* the loop on the task it gives.  The iterator raises RuntimeError when the
\* size of the dict is no longer the one it noted (enqueue_task stored a
\* task); else it gives the next task in the order of the dict, the order in
\* which the tasks were stored (caller.i is the id it gave last), or ends,
\* and the removals of line 232 begin.
CleanNext ==
    /\ caller.pc = "cleaning"
    /\ LET rest == {id \in DOMAIN queue_tasks : id > caller.i} IN
       IF Cardinality(DOMAIN queue_tasks) # caller.used
       THEN /\ caller' = Idle
            /\ response' = [call |-> "clean_old_tasks", id |-> 0,
                            code |-> "RuntimeError", task_id |-> 0]
       ELSE IF rest = {}
       THEN /\ caller' = [Idle EXCEPT !.pc = "removing",
                                      !.old_task_ids = caller.old_task_ids]
            /\ UNCHANGED response
       ELSE LET task_id == CHOOSE id \in rest : \A other \in rest : id <= other
            IN  /\ caller' = [caller EXCEPT
                                 !.i = task_id,
                                 !.old_task_ids =
                                     IF IsOld(queue_tasks[task_id], caller.cutoff)
                                     THEN @ \cup {task_id} ELSE @]
                /\ UNCHANGED response
    /\ UNCHANGED <<queue_tasks, task_queue, handlers, workers, running, threads,
                   dequeued, invoked, putting, time_time, pipelineVars, aiVars, limitVars>>

\* clean_old_tasks, lines 232-233: one pass of the removals.  old_task_ids
\* is in the order of the dict, the order in which the tasks were stored, so
\* the pass deletes the oldest id left.
CleanDelete ==
    /\ caller.pc = "removing"
    /\ caller.old_task_ids # {}
    /\ LET task_id == CHOOSE id \in caller.old_task_ids :
                          \A other \in caller.old_task_ids : id <= other
       IN  /\ queue_tasks' = [id \in DOMAIN queue_tasks \ {task_id} |->
                                 queue_tasks[id]]
           /\ caller' = [caller EXCEPT !.old_task_ids = @ \ {task_id}]
    /\ UNCHANGED <<task_queue, handlers, workers, running, threads, dequeued,
                   invoked, response, putting, time_time, pipelineVars, aiVars, limitVars>>

\* clean_old_tasks, lines 232-236: the removals are done and the call
\* returns
CleanEnd ==
    /\ caller.pc = "removing"
    /\ caller.old_task_ids = {}
    /\ caller' = Idle
    /\ response' = [call |-> "clean_old_tasks", id |-> 0,
                    code |-> "returned", task_id |-> 0]
    /\ UNCHANGED <<queue_tasks, task_queue, handlers, workers, running, threads,
                   dequeued, invoked, putting, time_time, pipelineVars, aiVars, limitVars>>

\* the message of get_task_status for an id that is not in tasks (line 127);
\* str(e) of a handler's exception is taken not to begin with these words
NotFoundMessage == "Task not found: <task_id>"

\* get_task_status, lines 126-140
GetTaskStatus(task_id) ==
    IF task_id \notin DOMAIN queue_tasks
    THEN [error |-> NotFoundMessage]
    ELSE [id           |-> task_id,
          type         |-> queue_tasks[task_id].type,
          status       |-> queue_tasks[task_id].status,
          completed_at |-> queue_tasks[task_id].completed_at,
          result       |-> queue_tasks[task_id].result,
          error        |-> queue_tasks[task_id].error]

\* The body the two follow-up endpoints share (api/routes.py, lines 431-476
\* and 938-965), on the manager of line 93.  The dict of an existing task
\* always has the key "error", so line 434 (941) calls startswith on
\* task.error: on None that raises AttributeError, which the except clause
\* of line 474 (963) turns into status 500.
FollowUp(endpoint, task_type, task_id) ==
    /\ LET found == GetTaskStatus(task_id) IN
       IF found.error = NotFoundMessage
       THEN /\ response' = [call |-> endpoint, id |-> task_id, code |-> "404",
                            task_id |-> 0]
            /\ UNCHANGED <<queue_tasks, task_queue, putting, dequeued, invoked>>
       ELSE IF found.error = None
       THEN /\ response' = [call |-> endpoint, id |-> task_id, code |-> "500",
                            task_id |-> 0]
            /\ UNCHANGED <<queue_tasks, task_queue, putting, dequeued, invoked>>
       ELSE IF found.status # "completed"
       THEN /\ response' = [call |-> endpoint, id |-> task_id, code |-> "400",
                            task_id |-> 0]
            /\ UNCHANGED <<queue_tasks, task_queue, putting, dequeued, invoked>>
       ELSE /\ NewTaskId <= MaxItems
            /\ Load + 1 <= MaxLoad
            /\ StoreTask(task_type, endpoint, task_id)
    /\ UNCHANGED <<handlers, workers, running, threads, caller, time_time, pipelineVars,
                   aiVars, limitVars>>

\* POST /generate-specification/{video_task_id}, lines 421-476
GenerateSpecification(video_task_id) ==
    FollowUp("generate_specification", "generate_specification", video_task_id)

\* POST /create-tasks/{spec_task_id}, lines 930-965
CreateTasks(spec_task_id) == FollowUp("create_tasks", "create_tasks", spec_task_id)

\* the task types a caller of enqueue_task passes: one with a handler of
\* api/routes.py (all three are of one kind, async def) and one with a
\* handler registered later, if any
TaskTypes == {"create_tasks", "job"}

\* The manager of api/routes.py after line 182, with its handlers, before
\* start() of line 185.
InitQueue ==
    /\ handlers = RoutesHandlers
    /\ queue_tasks = <<>>
    /\ task_queue = <<>>
    /\ putting = {}
    /\ running = FALSE
    /\ time_time = 0
    /\ threads = <<>>
    /\ workers = <<>>
    /\ caller = Idle
    /\ dequeued = <<>>
    /\ invoked = <<>>
    /\ response = NoResponse
    /\ tasks = <<>>
    /\ input = <<>>
    /\ graph = {}
    /\ pc = "none"
    /\ exc = "none"
    /\ NoCall
    /\ ai_call = [model |-> "none", attempt |-> 0]
    /\ ai_outcome = "none"
    /\ NoLimit

NextQueue ==
    \/ \E r \in Registrations : RegisterHandler(r[1], r[2])
    \/ StartBegin
    \/ StartThread
    \/ StartAppend
    \/ StopBegin
    \/ StopEnd
    \/ \E task_type \in TaskTypes : EnqueueTask(task_type)
    \/ \E p \in putting : QueuePut(p)
    \/ \E t \in DOMAIN threads : WorkerLoop(t)
    \/ \E t \in DOMAIN threads : GetTask(t)
    \/ \E t \in DOMAIN threads : ProcessTask(t)
    \/ \E t \in DOMAIN threads : HandlerEnds(t)
    \/ \E t \in DOMAIN threads : SetResult(t)
    \/ \E t \in DOMAIN threads : ReadTime(t)
    \/ \E t \in DOMAIN threads : SetCompletedAt(t)
    \/ \E cutoff \in 0..MaxItems : CleanBegin(cutoff)
    \/ CleanIter
    \/ CleanNext
    \/ CleanDelete
    \/ CleanEnd
    \/ \E video_task_id \in 0..MaxItems : GenerateSpecification(video_task_id)
    \/ \E spec_task_id \in 0..MaxItems : CreateTasks(spec_task_id)

SpecQueue == InitQueue /\ [][NextQueue]_vars

(***************************************************************************)
(* RateLimitMiddleware (api/middleware.py, lines 60-133).  dispatch calls   *)
(* _is_rate_limited without an await in between and answers 429 at once;   *)
(* a request it lets through is suspended in "await call_next(request)"    *)
(* of line 101, where the event loop takes up other requests before the    *)
(* answer of call_next comes back.  time.time() is read in whole seconds   *)
(* and does not go back.                                                   *)
(***************************************************************************)
\* the requests_per_minute the middleware is built with (main.py, line 45,
\* passes 60)
RequestsPerMinute == 2

\* the seconds between two readings of the clock that differ
TickSeconds == 20

\* the last reading of the clock
MaxClock == 120

\* how many requests are suspended in call_next at a time
MaxPending == 2

\* middleware.py, line 122: the age in seconds from which a timestamp is
\* dropped
Window == 60

\* request.client.host, or None for a request without a client
ClientHosts == {"10.0.0.1", None}

\* line 89
ClientIp(host) == IF host = None THEN "unknown" ELSE host

\* the test of line 122 with half the age
KeepTimestampHalf(current_time, ts) == current_time - ts < Window \div 2

\* the test of line 122
KeepTimestamp(current_time, ts) == current_time - ts < Window

\* _is_rate_limited, lines 113-133: [limited, timestamps], the answer and
\* the client's list as the call leaves it
IsRateLimited(client_ip, current_time) ==
    LET kept == SelectSeq(Get(request_timestamps, client_ip, <<>>),
                          LAMBDA ts : KeepTimestamp(current_time, ts))
    IN  IF Len(kept) >= RequestsPerMinute
        THEN [limited |-> TRUE, timestamps |-> kept]
        ELSE [limited |-> FALSE, timestamps |-> Append(kept, current_time)]

\* the requests suspended in call_next
Pending == in_call_next["10.0.0.1"] + in_call_next["unknown"]

\* dispatch, lines 88-101, up to the await of line 101: 429 for a limited
\* client; the request of any other is passed on to call_next
Dispatch(host) ==
    /\ \E limit \in {IsRateLimited(ClientIp(host), clock)} :
        /\ request_timestamps' = Put(request_timestamps, ClientIp(host), limit.timestamps)
        /\ IF limit.limited
           THEN /\ verdict' = [client |-> ClientIp(host), status_code |-> 429]
                /\ UNCHANGED <<accepted, in_call_next>>
           ELSE /\ Pending < MaxPending
                /\ in_call_next' = [in_call_next EXCEPT ![ClientIp(host)] = @ + 1]
                /\ accepted' = Put(accepted, ClientIp(host),
                                   Append(Get(accepted, ClientIp(host), <<>>), clock))
                /\ UNCHANGED verdict
    /\ UNCHANGED <<clock, pipelineVars, aiVars, queueVars>>

\* dispatch, line 101: call_next comes back and its answer, here 200, is
\* returned
CallNextReturns(client_ip) ==
    /\ in_call_next[client_ip] > 0
    /\ in_call_next' = [in_call_next EXCEPT ![client_ip] = @ - 1]
    /\ verdict' = [client |-> client_ip, status_code |-> 200]
    /\ UNCHANGED <<request_timestamps, clock, accepted, pipelineVars, aiVars,
                   queueVars>>

\* time passes
Tick ==
    /\ clock + TickSeconds <= MaxClock
    /\ clock' = clock + TickSeconds
    /\ UNCHANGED <<request_timestamps, accepted, in_call_next, verdict,
                   pipelineVars, aiVars, queueVars>>

InitLimit ==
    /\ NoLimit
    /\ tasks = <<>>
    /\ input = <<>>
    /\ graph = {}
    /\ pc = "none"
    /\ exc = "none"
    /\ NoCall
    /\ ai_call = [model |-> "none", attempt |-> 0]
    /\ ai_outcome = "none"
    /\ NoQueue

NextLimit ==
    \/ \E host \in ClientHosts : Dispatch(host)
    \/ \E client_ip \in DOMAIN in_call_next : CallNextReturns(client_ip)
    \/ Tick

SpecLimit == InitLimit /\ [][NextLimit]_vars

(***************************************************************************)
(* Claims about DependencyAnalyzer, checked under SpecDep.                 *)
(***************************************************************************)
\* the relation "d is in t.dependencies" as edges <<d, t.id>>
ListEdges(ts) ==
    UNION {{<<d, ts[i]["id"]>> : d \in Range(ts[i]["dependencies"])} : i \in DOMAIN ts}

Returned == pc = "analyzed"

\* the position of the task with a given id in the batch
Pos(id) == CHOOSE i \in DOMAIN TaskIds : TaskIds[i] = id

\* C1: after analyze_dependencies returns, every id in every task's
\* dependencies is the id of a task of the list.
C1_DependenciesResolve ==
    Returned =>
        \A i \in DOMAIN tasks :
            \A d \in Range(tasks[i]["dependencies"]) : d \in TaskMapIds(tasks)

\* C2: after analyze_dependencies returns, the relation "d is in
\* t.dependencies" over the tasks of the list has no cycle.
C2_DependenciesAcyclic ==
    Returned =>
        \A c \in DistinctSeqs(TaskMapIds(tasks)) : ~IsCycle(c, ListEdges(tasks))

\* C3: analyze_dependencies never raises.
C3_NeverRaises == pc # "raised"

\* the number of edges of the longest path of the graph that ends at id
LongestChain(edges, id) ==
    LET nodes == Range(TaskIds)
        paths == UNION {AllSimplePaths(nodes, edges, n, id) : n \in nodes \ {id}}
    IN  IF paths = {} THEN 0 ELSE Max({Len(p) - 1 : p \in paths})

\* C4: after analyze_dependencies, each task's depth is the number of edges
\* of the longest dependency path that ends at the task, 0 when there is none.
C4_DepthIsEdgeCount ==
    Returned =>
        \A i \in DOMAIN tasks :
            tasks[i]["depth"] = LongestChain(graph, tasks[i]["id"])

\* C5: after analyze_dependencies, a task that depends on another, directly
\* or through other tasks' post-repair dependencies, has the greater depth.
C5_DepthMonotone ==
    Returned =>
        \A a, b \in DOMAIN tasks :
            (a # b /\ AllSimplePaths(Range(TaskIds), ListEdges(tasks),
                                     tasks[a]["id"], tasks[b]["id"]) # {})
                => tasks[b]["depth"] > tasks[a]["depth"]

\* the batch handed in holds the mutual cycle T1 <-> T2
MutualCycleInput ==
    /\ input[1]["dependencies"] = <<"T2">>
    /\ input[2]["dependencies"] = <<"T1">>

\* C6: for the mutual cycle T1 <-> T2 the analysis returns, and exactly one
\* of the two dependency lists is emptied while the other keeps its entry.
C6_MutualCycleOneRemoved ==
    (MutualCycleInput /\ pc # "parsed") =>
        /\ Returned
        /\ \/ tasks[1]["dependencies"] = <<>> /\ tasks[2]["dependencies"] = <<"T1">>
           \/ tasks[1]["dependencies"] = <<"T2">> /\ tasks[2]["dependencies"] = <<>>

C6_Witness ==
    /\ MutualCycleInput
    /\ Returned
    /\ tasks[2]["dependencies"] = <<>>
    /\ tasks[1]["dependencies"] = <<"T2">>

\* C7: after analyze_dependencies, t.dependent_tasks lists, once each and in
\* list order, exactly the tasks whose dependencies contain t.id, and
\* t.dependent_count is its length.
C7_DependentsExact ==
    Returned =>
        \A i \in DOMAIN tasks :
            LET dt == tasks[i]["dependent_tasks"] IN
            /\ \A m, n \in DOMAIN dt : m < n => Pos(dt[m]) < Pos(dt[n])
            /\ Range(dt) = {tasks[j]["id"] : j \in
                              {k \in DOMAIN tasks :
                                  tasks[i]["id"] \in Range(tasks[k]["dependencies"])}}
            /\ tasks[i]["dependent_count"] = Len(dt)

C7_Witness ==
    /\ Returned
    /\ tasks[2]["dependent_tasks"] = <<"T1", "T3">>
    /\ tasks[2]["dependent_count"] = 2

\* every dependency id of the batch handed in is the id of one of its tasks
\* and no list names a task twice, so that building the graph removes no
\* entry and has one edge for each entry
NoDanglingInput ==
    \A i \in DOMAIN input :
        LET deps == input[i]["dependencies"] IN
        /\ Range(deps) \subseteq TaskMapIds(input)
        /\ \A m, n \in DOMAIN deps : m # n => deps[m] # deps[n]

\* C19: cycle repair removes from the task records the dependency whose
\* graph edge it removes, so that after analyze_dependencies the graph has
\* the edge d -> t exactly when d is in t.dependencies.
C19_GraphMatchesLists ==
    (Returned /\ NoDanglingInput) => graph = ListEdges(tasks)

(***************************************************************************)
(* Claims about Prioritizer, checked under SpecPrio.                       *)
(***************************************************************************)
Prioritized == pc = "prioritized"

\* the position a task had in the list handed in
InputPos(id) == CHOOSE i \in DOMAIN input : input[i]["id"] = id

\* C8: for a list of N tasks, the ranks prioritize_tasks assigns are exactly
\* 1..N, no two tasks sharing one, also when scores are equal.
C8_RanksAreOneToN ==
    Prioritized =>
        /\ Len(tasks) = Len(input)
        /\ {tasks[i]["rank"] : i \in DOMAIN tasks} = 1..Len(input)
        /\ \A i, j \in DOMAIN tasks : i # j => tasks[i]["rank"] # tasks[j]["rank"]

C8_Witness ==
    /\ Prioritized
    /\ tasks[1]["priority_score"] = tasks[2]["priority_score"]
    /\ tasks[2]["priority_score"] = tasks[3]["priority_score"]
    /\ tasks[3]["rank"] = 3

\* C9: the list prioritize_tasks returns is in non-increasing order of
\* priority_score, and tasks of equal score keep their input order.
C9_SortedStable ==
    Prioritized =>
        \A i, j \in DOMAIN tasks :
            i < j =>
                /\ ~FloatLess[tasks[i]["priority_score"], tasks[j]["priority_score"]]
                /\ tasks[i]["priority_score"] = tasks[j]["priority_score"]
                       => InputPos(tasks[i]["id"]) < InputPos(tasks[j]["id"])

C9_Witness ==
    /\ Prioritized
    /\ tasks[1]["id"] = "T3"
    /\ tasks[2]["id"] = "T1"
    /\ tasks[3]["id"] = "T2"
    /\ tasks[2]["priority_score"] = tasks[3]["priority_score"]
    /\ FloatLess[tasks[2]["priority_score"], tasks[1]["priority_score"]]

\* a is Critical, b is Low, and they agree on category, depth and
\* dependent_count
CriticalAndLow(a, b) ==
    /\ a["priority"] = "Critical"
    /\ b["priority"] = "Low"
    /\ a["category"] = b["category"]
    /\ a["depth"] = b["depth"]
    /\ a["dependent_count"] = b["dependent_count"]

\* C10: of two tasks with the same category, depth and dependent_count, the
\* Critical one gets a strictly higher priority_score than the Low one, and
\* the smaller rank number.
C10_CriticalAboveLow ==
    Prioritized =>
        \A i, j \in DOMAIN tasks :
            CriticalAndLow(tasks[i], tasks[j]) =>
                /\ FloatLess[tasks[j]["priority_score"], tasks[i]["priority_score"]]
                /\ tasks[i]["rank"] < tasks[j]["rank"]

C10_Witness ==
    /\ Prioritized
    /\ \E i, j \in DOMAIN tasks :
        /\ CriticalAndLow(tasks[i], tasks[j])
        /\ tasks[i]["depth"] = 2
        /\ InputPos(tasks[j]["id"]) < InputPos(tasks[i]["id"])

\* C11: prioritize_tasks does not raise on a task without a category, as
\* the parser builds one before any category header (category None); it
\* scores the task with the category weight 1.0.
C11_MissingFieldsDefault ==
    /\ exc # "AttributeError"
    /\ Prioritized =>
        \A i \in DOMAIN tasks :
            tasks[i]["category"] = NoneStr =>
                tasks[i]["priority_score"] =
                    FloatMul[FloatMul[FloatMul[
                        FloatFromInt[PriorityValue(tasks[i])], DefaultCategoryWeight],
                        FloatQuot[1, tasks[i]["depth"] + 1]],
                        FloatAdd[FloatFromInt[1],
                                 FloatMul[FloatFromInt[tasks[i]["dependent_count"]],
                                          FloatQuot[1, 10]]]]

(***************************************************************************)
(* Claims about Estimator, checked under SpecEst and SpecParseEstimate.    *)
(***************************************************************************)
Estimated == pc = "estimated"

\* s holds a number followed by an hour, day or week unit, in any case:
\* a digit, then white space or none, then the unit
HasNumberUnitPair(s) ==
    \E i \in DOMAIN s, k \in 2..(Len(s) + 1) :
        /\ i < k
        /\ IsDigit(s[i])
        /\ \A j \in (i + 1)..(k - 1) : IsSpace(s[j])
        /\ \E w \in {<<"h", "o", "u", "r">>, <<"d", "a", "y">>, <<"w", "e", "e", "k">>} : WordAt(LowerStr(s), k, w)

\* the task handed in at position i carries a syntactically valid estimate
HasValidEstimate(i) ==
    /\ "estimate" \in DOMAIN input[i]
    /\ HasNumberUnitPair(input[i]["estimate"])

\* no computed estimation left a trace in the task at position i
NotComputed(i) ==
    /\ "complexity" \notin DOMAIN tasks[i]
    /\ tasks[i]["estimate"] = input[i]["estimate"]

\* C12: after estimate_tasks, every task whose estimate string is
\* syntactically valid, "0 hours" included, has the parsed value as
\* estimated_hours and went through no computed estimation.
C12_ValidEstimateUsed ==
    Estimated =>
        \A i \in DOMAIN tasks :
            HasValidEstimate(i) =>
                /\ "estimated_hours" \in DOMAIN tasks[i]
                /\ tasks[i]["estimated_hours"] = ParseEstimate(input[i]["estimate"])
                /\ NotComputed(i)

ParseReturned == pc = "returned"

\* the hours in one unit
UnitHours(u) ==
    IF u \in {<<"h", "o", "u", "r">>, <<"h", "o", "u", "r", "s">>} THEN 1
    ELSE IF u \in {<<"d", "a", "y">>, <<"d", "a", "y", "s">>} THEN 8 ELSE 40

\* the number v (an int or a float) is the natural number n
ValueIs(v, n) ==
    IF IsPyInt(v) THEN BigFromInt[v.int] = n
    ELSE IF v.m = <<>> THEN n = <<>>
    ELSE IF v.e >= 0 THEN BigTrim[BigShl[v.m, v.e]] = n
    ELSE LET g == BigShr[v.m, -v.e] IN ~g.lost /\ BigTrim[g.q] = n

\* "<n> <unit>" gives n hours times the hours of the unit
ConvertsNumber(ds, u) ==
    estimate = ds \o <<" ">> \o u =>
        ValueIs(hours, BigTrim[BigMulSmall[DigitsToBig(ds), UnitHours(u), 0]])

\* C13 as claimed: _parse_estimate gives n for "<n> hour(s)", 8*n for
\* "<n> day(s)" and 40*n for "<n> week(s)", for every natural number n, and
\* 0 for a string without a number-unit pair.
C13_ParseEstimateConverts ==
    ParseReturned =>
        /\ \A ds \in EstimateNumbers, u \in Range(UnitWords) : ConvertsNumber(ds, u)
        /\ ~HasNumberUnitPair(estimate) => ValueIs(hours, <<>>)

\* C13 as amended: the same for every natural number n below 2^50, for
\* which n, 8*n and 40*n are floats.
C13_ParseEstimateConvertsBelow2To50 ==
    ParseReturned =>
        /\ \A ds \in EstimateNumbers, u \in Range(UnitWords) :
              BigBitLen[DigitsToBig(ds)] <= 50 => ConvertsNumber(ds, u)
        /\ ~HasNumberUnitPair(estimate) => ValueIs(hours, <<>>)

C13_Witness ==
    /\ ParseReturned
    /\ estimate = <<"1", "1", "2", "5", "8", "9", "9", "9", "0", "6", "8", "4", "2", "6", "2", "3", " ", "w", "e", "e", "k", "s">>
    /\ ValueIs(hours, DigitsToBig(<<"4", "5", "0", "3", "5", "9", "9", "6", "2", "7", "3", "7", "0", "4", "9", "2", "0">>))

\* C14: after estimate_tasks returns, every task of the list has an
\* estimated_hours, and it is a number that is not negative.
C14_EstimatedHoursNonNegative ==
    Estimated =>
        \A i \in DOMAIN tasks :
            /\ "estimated_hours" \in DOMAIN tasks[i]
            /\ LET h == tasks[i]["estimated_hours"] IN
               IF IsPyInt(h) THEN h.int \in Nat
               ELSE h \in Float /\ ~FloatLess[h, FloatZero]

C14_Witness ==
    /\ Estimated
    /\ Len(tasks) = 2
    /\ input[1]["estimate"] = <<"0", " ", "h", "o", "u", "r", "s">>
    /\ tasks[1]["estimated_hours"] = PyInt(10)
    /\ tasks[2]["estimated_hours"] = FloatFromInt[16]


\* the keywords of the three families, as the claim groups them
VeryHighKeywords == {<<"c", "o", "m", "p", "l", "e", "x">>, <<"c", "h", "a", "l", "l", "e", "n", "g", "i", "n", "g">>, <<"d", "i", "f", "f", "i", "c", "u", "l", "t">>, <<"a", "d", "v", "a", "n", "c", "e", "d">>, <<"s", "o", "p", "h", "i", "s", "t", "i", "c", "a", "t", "e", "d">>}

HighKeywords == {<<"i", "n", "t", "e", "g", "r", "a", "t", "e">>, <<"o", "p", "t", "i", "m", "i", "z", "e">>, <<"s", "e", "c", "u", "r", "e">>, <<"s", "c", "a", "l", "e">>, <<"r", "e", "f", "a", "c", "t", "o", "r">>}

LowKeywords == {<<"s", "i", "m", "p", "l", "e">>, <<"b", "a", "s", "i", "c">>, <<"s", "t", "r", "a", "i", "g", "h", "t", "f", "o", "r", "w", "a", "r", "d">>, <<"e", "a", "s", "y">>}

\* the task's name, description or notes has one of the keywords, in any case
Mentions(task, keywords) ==
    \E field \in {"name", "description", "notes"} :
        /\ field \in DOMAIN task
        /\ \E w \in keywords : Contains(LowerStr(task[field]), w)

\* C24: the complexity estimate_tasks writes is that of the first keyword
\* family the task's text has, in the order Very High, High, Low, and
\* Medium when it has none: Very High wins over Low, and High over Low.
C24_ComplexityPrecedence ==
    Estimated =>
        \A i \in DOMAIN tasks :
            "complexity" \in DOMAIN tasks[i] =>
                tasks[i]["complexity"] =
                    IF Mentions(input[i], VeryHighKeywords) THEN "Very High"
                    ELSE IF Mentions(input[i], HighKeywords) THEN "High"
                    ELSE IF Mentions(input[i], LowKeywords) THEN "Low"
                    ELSE "Medium"

C24_Witness ==
    /\ Estimated
    /\ Len(tasks) = 2
    /\ Get(input[1], "name", <<>>) = <<"S", "i", "m", "p", "l", "e", " ", "c", "o", "m", "p", "l", "e", "x", " ", "U", "I">>
    /\ Get(tasks[1], "complexity", None) = "Very High"
    /\ Get(input[2], "description", <<>>) = <<"E", "a", "s", "y", " ", "t", "o", " ", "i", "n", "t", "e", "g", "r", "a", "t", "e">>
    /\ Get(tasks[2], "complexity", None) = "High"

\* C25: estimate_tasks writes "<n> hours" into estimate only for a task
\* that had no estimate before, the key absent or its string empty; the
\* estimate of a task that had a string, valid or not, stays as it was.
C25_EstimateKeptWhenPresent ==
    \A i \in DOMAIN tasks :
        IF "estimate" \in DOMAIN input[i] /\ input[i]["estimate"] # <<>>
        THEN tasks[i]["estimate"] = input[i]["estimate"]
        ELSE \/ Get(tasks[i], "estimate", <<>>) = Get(input[i], "estimate", <<>>)
                  /\ "estimated_hours" \notin DOMAIN tasks[i]
             \/ /\ IsPyInt(tasks[i]["estimated_hours"])
                /\ tasks[i]["estimate"] =
                       IntToStr(tasks[i]["estimated_hours"].int) \o <<" ", "h", "o", "u", "r", "s">>

C25_Witness ==
    /\ Estimated
    /\ Len(tasks) = 2
    /\ Get(input[1], "estimate", <<>>) = <<"s", "o", "o", "n">>
    /\ Get(tasks[1], "estimate", <<>>) = <<"s", "o", "o", "n">>
    /\ "estimated_hours" \in DOMAIN tasks[1]
    /\ "estimate" \notin DOMAIN input[2]
    /\ Get(tasks[2], "estimate", <<>>) = <<"6", " ", "h", "o", "u", "r", "s">>

(***************************************************************************)
(* Claims about TaskCreator, checked under SpecCreate.                     *)
(***************************************************************************)
\* _parse_tasks ended by raising
ParseFailed == pc = "raised" /\ exc = "NameError"

\* texts of N task header lines "T1: <name>" .. "TN: <name>", some followed
\* by attribute lines, with the ids of their headers
HeaderTexts ==
    {[text |-> <<"T", "1", ":", " ", "F", "o", "o">>, ids |-> <<"T1">>],
     [text |-> JoinLines(<<<<"T", "1", ":", " ", "F", "o", "o">>, <<"T", "2", ":", " ", "B", "a", "r">>>>), ids |-> <<"T1", "T2">>],
     [text |-> JoinLines(<<<<"T", "1", ":", " ", "F", "o", "o">>, <<"P", "r", "i", "o", "r", "i", "t", "y", ":", " ", "H", "i", "g", "h">>>>), ids |-> <<"T1">>],
     [text |-> JoinLines(<<<<"T", "1", ":", " ", "F", "o", "o">>, <<"T", "2", ":", " ", "B", "a", "r">>, <<"T", "3", ":", " ", "B", "a", "z">>>>),
      ids  |-> <<"T1", "T2", "T3">>],
     [text |-> PipelineText, ids |-> <<"T1", "T2">>]}

\* C15: for a text of N task header lines "T1: <name>" .. "TN: <name>",
\* _parse_tasks returns exactly N tasks, with the ids T1..TN in the order of
\* the headers.
C15_ParserReturnsHeaders ==
    \A h \in HeaderTexts :
        (task_text = h.text /\ pc # "parsing") =>
            /\ ~ParseFailed
            /\ [i \in DOMAIN input |-> input[i]["id"]] = h.ids

\* C16: _parse_tasks fails on no text: it returns a list of tasks whose
\* fields it could not read are at their defaults.
C16_ParserNeverFails ==
    /\ pc = "raised" => exc # "NameError"
    /\ pc = "parsed" =>
        \A i \in DOMAIN tasks :
            {"id", "name", "description", "priority", "dependencies"}
                \subseteq DOMAIN tasks[i]

\* the task of the list with the id
TaskWithId(ts, id) == ts[CHOOSE i \in DOMAIN ts : ts[i]["id"] = id]

\* C17: create_tasks on PipelineText ends with two tasks, T2 of depth 1, T1
\* with one dependent, and T2 ranked above T1.
C17_PipelineExample ==
    (task_text = PipelineText /\ pc \in {"raised", "estimated"}) =>
        /\ pc = "estimated"
        /\ Len(tasks) = 2
        /\ {tasks[i]["id"] : i \in DOMAIN tasks} = {"T1", "T2"}
        /\ TaskWithId(tasks, "T2")["depth"] = 1
        /\ TaskWithId(tasks, "T1")["dependent_count"] = 1
        /\ TaskWithId(tasks, "T2")["rank"] < TaskWithId(tasks, "T1")["rank"]

\* how many tasks of the list carry the id
CountOfId(ts, id) == Cardinality({i \in DOMAIN ts : ts[i]["id"] = id})

\* C18: the list a stage after the parser returns holds the task records of
\* the parsed list, each id as many times as there: no stage adds or drops
\* a task, and the result is a permutation of the parsed list.
C18_StagesKeepTasks ==
    pc \in {"analyzed", "prioritized", "estimated"} =>
        /\ Len(tasks) = Len(input)
        /\ \A id \in {"T1", "T2", "T3"} : CountOfId(tasks, id) = CountOfId(input, id)

C18_Witness ==
    /\ pc = "estimated"
    /\ [i \in DOMAIN input |-> input[i]["id"]] = <<"T2", "T1", "T2">>
    /\ [i \in DOMAIN tasks |-> tasks[i]["id"]] = <<"T1", "T2", "T2">>
    /\ tasks[2]["priority_score"] = tasks[3]["priority_score"]

\* a category header as the claim has it: short, without a colon, and in
\* uppercase or behind a heading marker
ClaimedCategoryHeader(line) ==
    /\ Len(line) < 30
    /\ \A i \in DOMAIN line : line[i] # ":"
    /\ IsUpperStr(line) \/ line[1] = "#"

\* C20: a pass of the parser's loop over a line that is not empty sets
\* current_category, and starts no task, exactly when the line is short, has
\* no colon and is in uppercase or behind a heading marker; on any other
\* line it leaves current_category as it is.
C20_CategoryHeaderRule ==
    [][(pc = "parsing" /\ line_no' = line_no + 1 /\ CurrentLine # <<>>) =>
          IF ClaimedCategoryHeader(CurrentLine)
          THEN pc' = "parsing" /\ current_category' = CategoryName(CurrentLine)
          ELSE current_category' = current_category]_vars



\* a task list whose last task has a dependency line of the second keyword
DependsText ==
    JoinLines(<<<<"T", "1", ":", " ", "F", "o", "o">>, <<"T", "2", ":", " ", "B", "a", "r">>, <<"T", "3", ":", " ", "B", "a", "z">>, <<"D", "e", "p", "e", "n", "d", "s", " ", "o", "n", " ", "T", "1", ",", " ", "T", "2">>>>)

\* C21: inside a task, a line with the keyword "dependencies" or "depends
\* on" sets the task's dependency list to the task ids of the rest of the
\* line, in their order: "Depends on T1, T2" gives T3 the list [T1, T2], and
\* "Dependencies: T1" gives T2 of PipelineText the list [T1].
C21_DependencyLine ==
    /\ (task_text = DependsText /\ pc # "parsing") =>
            /\ ~ParseFailed
            /\ Len(input) = 3
            /\ input[3]["dependencies"] = <<"T1", "T2">>
    /\ (task_text = PipelineText /\ pc # "parsing") =>
            /\ ~ParseFailed
            /\ Len(input) = 2
            /\ input[2]["dependencies"] = <<"T1">>


\* the stages of create_tasks from the parser on
ParserInvoked == pc \in {"parsing", "parsed", "analyzed", "prioritized", "estimated", "raised"}

\* C22: when the generation call fails, _parse_tasks is not invoked on the
\* text that stands for the failure, and create_tasks returns no result
\* whose raw_text is an error message.
C22_GenerationFailureSurfaced ==
    /\ ai_outcome \in {"error_returned", "raised"} => ~ParserInvoked
    /\ pc = "estimated" =>
            task_text \notin {NoApiKeyText, AttemptsFailedText, ProcessErrorText}


(***************************************************************************)
(* Claims about QueueManager and the follow-up endpoints, checked under    *)
(* SpecQueue.                                                              *)
(***************************************************************************)
\* C23: whenever a work item of type create_tasks has the status completed,
\* the body of its handler has run to its end, and the item's result is the
\* object the handler returned.
C23_CompletedAfterHandlerBody ==
    \A id \in DOMAIN queue_tasks :
        (queue_tasks[id].type = "create_tasks" /\ queue_tasks[id].status = "completed") =>
            /\ invoked[id].finished = 1
            /\ queue_tasks[id].result = "<result>"

\* C26: a work item's status only goes from pending to processing and from
\* processing to completed or failed; an item that is completed or failed
\* changes no more in status, result and error, as long as the manager
\* holds it; result is set only on a completed item and error only on a
\* failed one.
C26_StatusTransitions ==
    [][\A id \in DOMAIN queue_tasks \cap DOMAIN queue_tasks' :
          LET before == queue_tasks[id]
              after  == queue_tasks'[id]
          IN  /\ after.status # before.status =>
                    <<before.status, after.status>> \in
                        {<<"pending", "processing">>, <<"processing", "completed">>,
                         <<"processing", "failed">>}
              /\ before.status \in {"completed", "failed"} =>
                    /\ after.status = before.status
                    /\ after.result = before.result
                    /\ after.error = before.error
              /\ after.result # before.result => after.status = "completed"
              /\ after.error # before.error => after.status = "failed"]_vars

\* C27: an id leaves the queue to one worker: no id was returned by get to
\* two threads, no id is held by two threads, no handler was called twice
\* for an id, and an id whose put is done is either once in the queue or
\* was returned to exactly one thread; an id whose put is still to come is
\* not in the queue.
C27_OneWorkerPerItem ==
    \A id \in DOMAIN dequeued :
        /\ Cardinality(dequeued[id]) <= 1
        /\ invoked[id].calls <= 1
        /\ Cardinality({t \in DOMAIN threads : threads[t].task_id = id}) <= 1
        /\ Cardinality({i \in DOMAIN task_queue : task_queue[i] = id}) =
               IF \E p \in putting : p.task_id = id
               THEN 0 ELSE 1 - Cardinality(dequeued[id])

C27_Witness ==
    /\ \E t1, t2 \in DOMAIN threads :
        /\ t1 < t2
        /\ threads[t1].pc = "handler" /\ threads[t1].task_id = 2
        /\ threads[t2].pc = "handler" /\ threads[t2].task_id = 1
    /\ Len(invoked) = 2
    /\ \A id \in DOMAIN invoked : invoked[id].calls = 1
    /\ task_queue = <<>>

\* C28: whatever start() and stop() calls were made, no more than
\* num_workers threads are in _worker_loop.
C28_WorkersBounded == Cardinality(LiveThreads) <= num_workers

\* the answer of a follow-up endpoint that the step gives
FollowUpAnswered ==
    /\ response' # response
    /\ response'.call \in {"generate_specification", "create_tasks"}

\* the calls of a follow-up endpoint that store a task in the step
FollowUpStored ==
    {p \in putting' \ putting : p.call \in {"generate_specification", "create_tasks"}}

\* C29: a follow-up endpoint answers 404 for an id the manager does not
\* know and 400 for an item that is pending, processing or failed; for a
\* completed item it stores one new item, queues it and answers 200 with its
\* id; it stores and queues in no other case.
C29_FollowUpOnlyAfterCompleted ==
    [][/\ FollowUpAnswered =>
            IF response'.code = "200"
            THEN /\ [task_id |-> response'.task_id, call |-> response'.call,
                      id |-> response'.id] \in putting
                 /\ task_queue' = Append(task_queue, response'.task_id)
            ELSE /\ IF response'.id \notin DOMAIN queue_tasks
                    THEN response'.code = "404"
                    ELSE /\ queue_tasks[response'.id].status # "completed"
                         /\ response'.code = "400"
                 /\ queue_tasks' = queue_tasks
                 /\ task_queue' = task_queue
                 /\ putting' = putting
       /\ \A p \in FollowUpStored :
            /\ p.id \in DOMAIN queue_tasks
            /\ queue_tasks[p.id].status = "completed"
            /\ DOMAIN queue_tasks' = DOMAIN queue_tasks \cup {p.task_id}
            /\ p.task_id \notin DOMAIN queue_tasks]_vars


(***************************************************************************)
(* Claims about RateLimitMiddleware, checked under SpecLimit.              *)
(***************************************************************************)
\* how many of the times are younger than Window seconds at the time now
Younger(times, now) == Cardinality({i \in DOMAIN times : now - times[i] < Window})

\* no Window seconds that begin with a request let through hold more than
\* RequestsPerMinute requests let through, for any client
WithinLimit(log) ==
    \A client \in DOMAIN log :
        \A first \in DOMAIN log[client] :
            Cardinality({i \in DOMAIN log[client] :
                            /\ log[client][first] <= log[client][i]
                            /\ log[client][i] < log[client][first] + Window})
                <= RequestsPerMinute

\* the step passes a request of the client on to call_next
PassedOn(client) == in_call_next'[client] = in_call_next[client] + 1

\* the step is the return of call_next for a request of the client
ComesBack(client) == in_call_next'[client] = in_call_next[client] - 1

\* C30: a request is rejected with 429 exactly when its client has
\* RequestsPerMinute requests let through that are younger than 60 seconds,
\* and is let through otherwise; a rejected request is not counted; a
\* request changes nothing of another client; the answer of a request let
\* through changes nothing the limit depends on; and no client gets more
\* than RequestsPerMinute requests through in any 60 seconds.
C30_RateLimit ==
    [][/\ (clock' = clock /\ \A c \in DOMAIN in_call_next : ~ComesBack(c)) =>
            LET client == IF \E c \in DOMAIN in_call_next : PassedOn(c)
                          THEN CHOOSE c \in DOMAIN in_call_next : PassedOn(c)
                          ELSE verdict'.client
                before == Get(accepted, client, <<>>)
            IN  /\ ~PassedOn(client) <=>
                      Younger(before, clock) >= RequestsPerMinute
                /\ ~PassedOn(client) =>
                      /\ verdict'.status_code = 429
                      /\ accepted' = accepted
                      /\ Len(request_timestamps'[client]) <=
                             Len(Get(request_timestamps, client, <<>>))
                /\ PassedOn(client) =>
                      /\ accepted'[client] = Append(before, clock)
                      /\ verdict' = verdict
                /\ \A other \in (DOMAIN accepted' \cup DOMAIN request_timestamps') \ {client} :
                      /\ Get(accepted', other, <<>>) = Get(accepted, other, <<>>)
                      /\ Get(request_timestamps', other, <<>>) =
                             Get(request_timestamps, other, <<>>)
                /\ WithinLimit(accepted')
       /\ \A c \in DOMAIN in_call_next :
            ComesBack(c) =>
                /\ verdict' = [client |-> c, status_code |-> 200]
                /\ accepted' = accepted
                /\ request_timestamps' = request_timestamps]_vars

C30_Witness ==
    /\ verdict = [client |-> "10.0.0.1", status_code |-> 429]
    /\ in_call_next["10.0.0.1"] = RequestsPerMinute
    /\ "unknown" \in DOMAIN accepted
    /\ accepted["unknown"][Len(accepted["unknown"])] = clock
    /\ Len(Get(accepted, "10.0.0.1", <<>>)) > RequestsPerMinute
    /\ Younger(Get(accepted, "10.0.0.1", <<>>), clock) = RequestsPerMinute

====
